---- MODULE Spec2Model ----
(***************************************************************************)
(* The train index of db-vendo-api/server.js: the background rebuild       *)
(* (buildTrainIndex), its triggers (startup, hourly timer, POST            *)
(* /trains/rebuild-index) and the lookup handlers that read the published  *)
(* index.                                                                  *)
(*                                                                         *)
(* Node.js runs every handler to its next await without interruption, so   *)
(* one action is one such run: the code between two awaits.  A JavaScript  *)
(* string is a sequence of one-character strings.                          *)
(***************************************************************************)
EXTENDS Integers, Sequences, FiniteSets, TLC

\* ------------------------------------------------------------------ bounds

\* Stations of the catalog that are polled (the code's catalog has 98).
NStations == 2
\* Time windows of one rebuild (the code has 4).
NWindows == 2
\* Rebuilds started in one behaviour.
MaxBuilds == 3

\* ----------------------------------------------------------------- strings

Lower == <<"a","b","c","d","e","f","g","h","i","j","k","l","m",
           "n","o","p","q","r","s","t","u","v","w","x","y","z">>
Upper == <<"A","B","C","D","E","F","G","H","I","J","K","L","M",
           "N","O","P","Q","R","S","T","U","V","W","X","Y","Z">>
Digits == {"0","1","2","3","4","5","6","7","8","9"}
Whitespace == {" ", "\t"}

\* null and undefined: a value that is no string and is falsy.
Null == <<"null">>

LowerChars == {Lower[i] : i \in 1..Len(Lower)}

UpperChar(c) ==
  IF c \in LowerChars
    THEN Upper[CHOOSE i \in 1..Len(Lower) : Lower[i] = c]
    ELSE c

\* String.prototype.toUpperCase
toUpperCase(s) == [i \in 1..Len(s) |-> UpperChar(s[i])]

\* /^\d+$/.test(s)
IsDigits(s) == Len(s) > 0 /\ \A i \in 1..Len(s) : s[i] \in Digits

\* s.replace(/\D/g, '')
IsDigitChar(c) == c \in Digits
StripNonDigits(s) == SelectSeq(s, IsDigitChar)

\* s.replace(/\s/g, '')
IsNoSpaceChar(c) == c \notin Whitespace
StripSpace(s) == SelectSeq(s, IsNoSpaceChar)

\* String.prototype.trim
RECURSIVE TrimLeft(_)
TrimLeft(s) ==
  IF s # <<>> /\ Head(s) \in Whitespace THEN TrimLeft(Tail(s)) ELSE s

RECURSIVE TrimRight(_)
TrimRight(s) ==
  IF s # <<>> /\ s[Len(s)] \in Whitespace
    THEN TrimRight(SubSeq(s, 1, Len(s) - 1)) ELSE s

trim(s) == TrimRight(TrimLeft(s))

\* s.startsWith(p)
startsWith(s, p) == Len(p) <= Len(s) /\ SubSeq(s, 1, Len(p)) = p

\* s.includes(p)
includes(s, p) ==
  \E i \in 0..(Len(s) - Len(p)) : SubSeq(s, i + 1, i + Len(p)) = p

\* s.split(/\s+/): the pieces between the runs of whitespace.  A string that
\* starts or ends with whitespace yields an empty first or last piece.
RECURSIVE SplitFrom(_, _)
SplitFrom(s, cur) ==
  IF s = <<>> THEN <<cur>>
  ELSE IF Head(s) \in Whitespace
    THEN <<cur>> \o SplitFrom(TrimLeft(s), <<>>)
    ELSE SplitFrom(Tail(s), Append(cur, Head(s)))

split(s) == SplitFrom(s, <<>>)

\* A template literal's rendering of a value: null prints as "null".
Str(v) == IF v = Null THEN <<"n","u","l","l">> ELSE v

\* ------------------------------------------------------ identity extractor

\* A faulty variant of FirstDigitsPiece: the last piece of digits.
FirstDigitsPiece_Last(parts) ==
  IF \E i \in 1..Len(parts) : IsDigits(parts[i])
    THEN parts[CHOOSE i \in 1..Len(parts) :
                 /\ IsDigits(parts[i])
                 /\ \A j \in (i + 1)..Len(parts) : ~IsDigits(parts[j])]
    ELSE Null

\* extractTrainNumber: the first piece of the uppercased label that is all
\* digits, or null.
FirstDigitsPiece(parts) ==
  IF \E i \in 1..Len(parts) : IsDigits(parts[i])
    THEN parts[CHOOSE i \in 1..Len(parts) :
                 /\ IsDigits(parts[i])
                 /\ \A j \in 1..(i - 1) : ~IsDigits(parts[j])]
    ELSE Null

extractTrainNumber(lineName) ==
  IF lineName = Null \/ lineName = <<>> THEN Null
  ELSE FirstDigitsPiece(split(toUpperCase(lineName)))

\* The alternatives of the regular expression, in its order.
TypeCodes == << <<"I","C","E">>, <<"I","C">>, <<"E","C">>, <<"R","E">>,
                <<"R","B">>, <<"I","R","E">>, <<"T","G","V">>, <<"R","J">>,
                <<"N","J">> >>

\* A faulty variant of extractTrainType: the regular expression has no ^.
extractTrainType_Anywhere(lineName) ==
  IF lineName = Null \/ lineName = <<>> THEN Null
  ELSE LET u == toUpperCase(lineName)
           hit == {i \in 1..Len(TypeCodes) : includes(u, TypeCodes[i])}
       IN IF hit = {} THEN Null
          ELSE TypeCodes[CHOOSE i \in hit : \A j \in hit : i <= j]

\* extractTrainType: the first alternative that is a prefix of the uppercased
\* label, or null.
extractTrainType(lineName) ==
  IF lineName = Null \/ lineName = <<>> THEN Null
  ELSE LET u == toUpperCase(lineName)
           hit == {i \in 1..Len(TypeCodes) : startsWith(u, TypeCodes[i])}
       IN IF hit = {} THEN Null
          ELSE TypeCodes[CHOOSE i \in hit : \A j \in hit : i <= j]

\* --------------------------------------------------------- station catalog

\* Stations of the catalog, in catalog order; majorStations is the first
\* NStations of them.
Catalog == << [id |-> "8000105", name |-> "Frankfurt Hbf"],
              [id |-> "8011160", name |-> "Berlin Hbf"],
              [id |-> "8000207", name |-> "Koeln Hbf"],
              [id |-> "8002549", name |-> "Hamburg Hbf"] >>

majorStations == SubSeq(Catalog, 1, NStations)

\* timeWindows, in order: the first NWindows of the code's four.
AllWindows == << [name |-> "now-6h", offset |-> 0],
                 [name |-> "6h-12h", offset |-> 6],
                 [name |-> "12h-18h", offset |-> 12],
                 [name |-> "18h-24h", offset |-> 18] >>

timeWindows == SubSeq(AllWindows, 1, NWindows)

\* Fetches of one rebuild: departures and arrivals of every (station, window).
FetchesPerBuild == Len(majorStations) * Len(timeWindows) * 2

\* The station, window and feed of the rebuild's n-th fetch (n from 1).
StationOf(n) == ((n - 1) \div (2 * Len(timeWindows))) + 1
WindowOf(n) == (((n - 1) % (2 * Len(timeWindows))) \div 2) + 1
IsDeparture(n) == n % 2 = 1

\* ------------------------------------------------------ index entry builder

\* Map.prototype.has on an index: a sequence of <key, data> in insertion order.
has(index, key) == \E i \in 1..Len(index) : index[i].key = key

\* Map.prototype.get, undefined as Null.
get(index, key) ==
  IF has(index, key)
    THEN index[CHOOSE i \in 1..Len(index) : index[i].key = key].data
    ELSE Null

\* [...].filter(Boolean) on strings: the empty string is dropped.
RECURSIVE FilterBoolean(_)
FilterBoolean(keys) ==
  IF keys = <<>> THEN <<>>
  ELSE IF Head(keys) = <<>> \/ Head(keys) = Null
    THEN FilterBoolean(Tail(keys))
    ELSE <<Head(keys)>> \o FilterBoolean(Tail(keys))

\* A faulty variant of KeysOf: the digits of the line name are a key too.
KeysOf_AllDigits(lineName, trainType, trainNumber) ==
  FilterBoolean(<< trainNumber,
                   Str(trainType) \o trainNumber,
                   Str(trainType) \o <<" ">> \o trainNumber,
                   toUpperCase(lineName),
                   StripNonDigits(lineName) >>)

\* The keys an entry is filed under, in the order they are tried.
KeysOf(lineName, trainType, trainNumber) ==
  FilterBoolean(<< trainNumber,
                   Str(trainType) \o trainNumber,
                   Str(trainType) \o <<" ">> \o trainNumber,
                   toUpperCase(lineName) >>)

\* A faulty variant of SetAbsent: every key is set, so that a key that is
\* present gets the later entry (at the place of the earlier one, as
\* Map.prototype.set does).
RECURSIVE SetAlways(_, _, _)
SetAlways(index, keys, data) ==
  IF keys = <<>> THEN index
  ELSE IF has(index, Head(keys))
    THEN SetAlways([i \in 1..Len(index) |->
                      IF index[i].key = Head(keys)
                        THEN [key |-> Head(keys), data |-> data]
                        ELSE index[i]],
                   Tail(keys), data)
    ELSE SetAlways(Append(index, [key |-> Head(keys), data |-> data]),
                   Tail(keys), data)

\* The loop over the keys: a key that is absent is set, a key that is present
\* keeps its entry.
RECURSIVE SetAbsent(_, _, _)
SetAbsent(index, keys, data) ==
  IF keys = <<>> THEN index
  ELSE IF has(index, Head(keys))
    THEN SetAbsent(index, Tail(keys), data)
    ELSE SetAbsent(Append(index, [key |-> Head(keys), data |-> data]),
                   Tail(keys), data)

\* trainData of one record.
TrainData(info, station, source) ==
  [ tripId      |-> info.tripId,
    lineName    |-> info.name,
    trainNumber |-> extractTrainNumber(info.name),
    trainType   |-> extractTrainType(info.name),
    station     |-> station.id,
    stationName |-> station.name,
    direction   |-> IF info.direction = <<>> THEN Null ELSE info.direction,
    time        |-> IF info.when = Null \/ info.when = <<>>
                      THEN info.plannedWhen ELSE info.when,
    delay       |-> IF info.delay = {} THEN 0 ELSE CHOOSE d \in info.delay : TRUE,
    source      |-> source ]

\* A faulty variant of addTrainToIndex: a record without tripId is filed.
addTrainToIndex_AnyTrip(newIndex, info, station, source) ==
  IF info.name = Null \/ info.name = <<>>
    THEN [index |-> newIndex, added |-> FALSE]
  ELSE IF extractTrainNumber(info.name) = Null
    THEN [index |-> newIndex, added |-> FALSE]
  ELSE LET data == TrainData(info, station, source)
           keys == KeysOf(info.name, data.trainType, data.trainNumber)
           next == SetAbsent(newIndex, keys, data)
       IN [index |-> next, added |-> next # newIndex]

\* addTrainToIndex: the index after the call and the value returned.
addTrainToIndex(newIndex, info, station, source) ==
  IF info.name = Null \/ info.name = <<>> \/ info.tripId = Null \/ info.tripId = <<>>
    THEN [index |-> newIndex, added |-> FALSE]
  ELSE IF extractTrainNumber(info.name) = Null
    THEN [index |-> newIndex, added |-> FALSE]
  ELSE LET data == TrainData(info, station, source)
           keys == KeysOf(info.name, data.trainType, data.trainNumber)
           next == SetAbsent(newIndex, keys, data)
       IN [index |-> next, added |-> next # newIndex]

\* The loop over one response's records: the index after it and the number of
\* calls that returned true.
RECURSIVE AddAll(_, _, _, _)
AddAll(newIndex, list, station, source) ==
  IF list = <<>> THEN [index |-> newIndex, count |-> 0]
  ELSE LET one == addTrainToIndex(newIndex, Head(list), station, source)
           rest == AddAll(one.index, Tail(list), station, source)
       IN [index |-> rest.index,
           count |-> rest.count + (IF one.added THEN 1 ELSE 0)]

\* ------------------------------------------------------- upstream provider

\* Line labels and trip ids the upstream reports.
ICE513 == <<"I","C","E"," ","5","1","3">>
ic513 == <<"i","c"," ","5","1","3">>
RE5 == <<"R","E"," ","5">>
SBahn == <<"S","-","B","a","h","n">>
TripA == <<"A">>
TripB == <<"B">>
TripC == <<"C">>
TripD == <<"D">>

\* One schedule record: line.name, tripId, direction, when, plannedWhen, delay
\* (a missing string is Null, a missing number the empty set).
Record(name, tripId, direction, when, delay) ==
  [ name |-> name, tripId |-> tripId, direction |-> direction,
    when |-> when, plannedWhen |-> <<"p">>, delay |-> delay ]

\* What a departures or arrivals call ends with: a list, or a rejection.
Resolved(list) == [ok |-> TRUE, list |-> list, message |-> ""]
Rejected(message) == [ok |-> FALSE, list |-> <<>>, message |-> message]

\* The timetables the upstream can answer one rebuild from (every request of
\* a rebuild carries that rebuild's start time).  1: the first station
\* reports ICE 513 as trip A, the second reports it as trip B in a later
\* window.  2: calls fail, records are unusable, and trip B is seen first.
Timetables == {1, 2}

\* Pieces of line labels: a label is MaxPieces of them in a row.
Pieces == << <<>>, <<" ">>, <<"I","C","E">>, <<"i","c">>, <<"I","R">>, <<"E">>,
             <<"5">>, <<"1","3">>, <<"X","1">>, <<"B","u","s">> >>

MaxPieces == 3

RECURSIVE LabelFrom(_, _)
LabelFrom(k, n) ==
  IF n = 0 THEN <<>>
  ELSE Pieces[(k % Len(Pieces)) + 1] \o LabelFrom(k \div Len(Pieces), n - 1)

RECURSIVE Count(_, _)
Count(base, n) == IF n = 0 THEN 1 ELSE base * Count(base, n - 1)

\* The labels, numbered from 0.
NLabels == Count(Len(Pieces), MaxPieces)
LabelOf(k) == LabelFrom(k, MaxPieces)

\* The lines of a busy station: more than ten numbers that begin with 51,
\* numbers of several lengths, one that holds 51 further back, and a line
\* whose number is 7 and whose label goes on with 513.
Pool == << <<"I","C","E"," ","5","1","3">>, <<"R","E"," ","5","1">>,
           <<"I","C"," ","5","1","3","4">>, <<"I","C","E"," ","5","1","9">>,
           <<"E","C"," ","5","1","0","0">>, <<"R","B"," ","5","1","5">>,
           <<"I","C","E"," ","5","1","2">>, <<"I","C","E"," ","5","1","1">>,
           <<"R","E"," ","5","1","4">>, <<"I","C"," ","5","1","6">>,
           <<"I","C","E"," ","5","1","7">>, <<"I","C","E"," ","1","5","1","3">>,
           <<"S"," ","7"," ","5","1","3">> >>

\* The w-th list of the pool: a run of its lines, taken round the end, from
\* the front or from the back.
PoolList(w) ==
  LET n == Len(Pool)
      first == (w \div 2) % n
      len == (w \div (2 * n)) + 1
      run == [i \in 1..len |-> Pool[((first + i - 1) % n) + 1]]
  IN [i \in 1..len |->
        Record(IF w % 2 = 0 THEN run[i] ELSE run[len + 1 - i],
               TripA, <<"M">>, <<"w">>, {})]

NPoolLists == 2 * Len(Pool) * Len(Pool)

\* The timetables of one label (the first station reports it as a departure
\* without a trip and as an arrival with one) and those of a list of the pool.
LabelTimetables == 3..(2 + NLabels)
PoolTimetables == (3 + NLabels)..(2 + NLabels + NPoolLists)

UpstreamResponse(timetable, station, window, departure) ==
  IF timetable \in LabelTimetables THEN
    IF station = 1 /\ window = 1 /\ departure
      THEN Resolved(<< Record(LabelOf(timetable - 3), <<>>, <<"M">>, <<"w">>, {}) >>)
    ELSE IF station = 1 /\ window = 1
      THEN Resolved(<< Record(LabelOf(timetable - 3), TripA, <<"M">>, <<"w">>, {}) >>)
    ELSE Resolved(<<>>)
  ELSE IF timetable \in PoolTimetables THEN
    IF station = 1 /\ window = 1 /\ departure
      THEN Resolved(PoolList(timetable - 3 - NLabels))
    ELSE Resolved(<<>>)
  ELSE IF timetable = 1 THEN
    IF station = 1 /\ window = 1 /\ departure
      THEN Resolved(<< Record(ICE513, TripA, <<"M">>, <<"w">>, {}) >>)
    ELSE IF station = 1 /\ window = 1
      THEN Resolved(<< Record(ic513, TripC, <<>>, Null, {120}) >>)
    ELSE IF station = 2 /\ window = 2 /\ departure
      THEN Resolved(<< Record(ICE513, TripB, <<"H">>, <<"w">>, {}) >>)
    ELSE Resolved(<<>>)
  ELSE
    IF station = 1 /\ window = 1 /\ departure
      THEN Rejected("HTTP 500")
    ELSE IF station = 1 /\ window = 1
      THEN Resolved(<< Record(ICE513, Null, <<"M">>, <<"w">>, {}),
                       Record(SBahn, TripD, <<"M">>, <<"w">>, {}),
                       Record(Null, TripD, <<"M">>, <<"w">>, {}),
                       Record(ICE513, TripB, <<"H">>, Null, {60}) >>)
    ELSE IF station = 1 /\ departure
      THEN Rejected("404 Not Found")
    ELSE IF station = 2 /\ window = 1 /\ departure
      THEN Resolved(<< Record(ICE513, TripA, <<"M">>, <<"w">>, {}),
                       Record(RE5, TripD, <<>>, <<"w">>, {}) >>)
    ELSE IF station = 2 /\ window = 1
      THEN Rejected("HTTP 503")
    ELSE Resolved(<<>>)

\* ------------------------------------------------------------ lookup engine

\* The three forms of a query that /trains/search looks up, in order.
Normalized(q) == trim(toUpperCase(q))
NoSpace(q) == StripSpace(Normalized(q))
NumOnly(q) == StripNonDigits(Normalized(q))

\* A faulty variant of FuzzyHits: the scan compares the trainNumber only.
FuzzyHits_Exact(index, queryNumOnly) ==
  {i \in 1..Len(index) : index[i].data.trainNumber = queryNumOnly}

\* The fuzzy scan: the entries, in insertion order, whose key contains the
\* digit-only query or whose trainNumber equals it.
FuzzyHits(index, queryNumOnly) ==
  {i \in 1..Len(index) :
     \/ includes(index[i].key, queryNumOnly)
     \/ index[i].data.trainNumber = queryNumOnly}

\* let found = get(query) || get(queryNoSpace) || get(queryNumOnly), then the
\* scan: whether an entry is found, and which one.
IndexHit(index, query, queryNoSpace, queryNumOnly) ==
  \/ has(index, query)
  \/ has(index, queryNoSpace)
  \/ has(index, queryNumOnly)
  \/ FuzzyHits(index, queryNumOnly) # {}

\* A faulty variant of IndexFound: the digit-only form is looked up first.
IndexFound_NumOnlyFirst(index, query, queryNoSpace, queryNumOnly) ==
  IF has(index, queryNumOnly) THEN get(index, queryNumOnly)
  ELSE IF has(index, query) THEN get(index, query)
  ELSE IF has(index, queryNoSpace) THEN get(index, queryNoSpace)
  ELSE LET hits == FuzzyHits(index, queryNumOnly)
       IN index[CHOOSE i \in hits : \A j \in hits : i <= j].data

IndexFound(index, query, queryNoSpace, queryNumOnly) ==
  IF has(index, query) THEN get(index, query)
  ELSE IF has(index, queryNoSpace) THEN get(index, queryNoSpace)
  ELSE IF has(index, queryNumOnly) THEN get(index, queryNumOnly)
  ELSE LET hits == FuzzyHits(index, queryNumOnly)
       IN index[CHOOSE i \in hits : \A j \in hits : i <= j].data

\* Whether /trains/search finds an entry for the text q, and which one.
SearchHit(index, q) == IndexHit(index, Normalized(q), NoSpace(q), NumOnly(q))
SearchFound(index, q) == IndexFound(index, Normalized(q), NoSpace(q), NumOnly(q))

\* The candidates of /trains/autocomplete before sorting: the entries under
\* all-digit keys that match, the first one of each trainNumber, in insertion
\* order.
Candidate(data) ==
  [ trainNumber |-> data.trainNumber, lineName |-> data.lineName,
    trainType |-> data.trainType, direction |-> data.direction,
    tripId |-> data.tripId ]

\* A faulty variant of MatchesQuery: every entry matches.
MatchesQuery_Always(entry, query, queryNumOnly) == TRUE

MatchesQuery(entry, query, queryNumOnly) ==
  \/ startsWith(entry.key, queryNumOnly)
  \/ startsWith(entry.data.trainNumber, queryNumOnly)
  \/ \E lineName \in {toUpperCase(entry.data.lineName)} :
       includes(lineName, query)

RECURSIVE Matches(_, _, _, _)
Matches(index, query, queryNumOnly, matches) ==
  IF index = <<>> THEN matches
  ELSE LET e == Head(index)
           seen == \E i \in 1..Len(matches) :
                     matches[i].trainNumber = e.data.trainNumber
       IN IF IsDigits(e.key) /\ MatchesQuery(e, query, queryNumOnly) /\ ~seen
            THEN Matches(Tail(index), query, queryNumOnly,
                         Append(matches, Candidate(e.data)))
            ELSE Matches(Tail(index), query, queryNumOnly, matches)

\* String.prototype.localeCompare on train numbers of equal length.
DigitOrder == <<"0","1","2","3","4","5","6","7","8","9">>
Rank(c) == IF c \in Digits THEN CHOOSE i \in 1..10 : DigitOrder[i] = c ELSE 11

RECURSIVE localeCompare(_, _)
localeCompare(a, b) ==
  IF a = <<>> /\ b = <<>> THEN 0
  ELSE IF a = <<>> THEN -1
  ELSE IF b = <<>> THEN 1
  ELSE IF Rank(Head(a)) # Rank(Head(b)) THEN Rank(Head(a)) - Rank(Head(b))
  ELSE localeCompare(Tail(a), Tail(b))

\* A faulty variant of Compare: the exact match has no precedence.
Compare_NoExact(a, b, numOnly) ==
  IF Len(a.trainNumber) # Len(b.trainNumber)
    THEN Len(a.trainNumber) - Len(b.trainNumber)
  ELSE localeCompare(a.trainNumber, b.trainNumber)

\* The comparator handed to sort.
Compare(a, b, numOnly) ==
  IF a.trainNumber = numOnly THEN -1
  ELSE IF b.trainNumber = numOnly THEN 1
  ELSE IF Len(a.trainNumber) # Len(b.trainNumber)
    THEN Len(a.trainNumber) - Len(b.trainNumber)
  ELSE localeCompare(a.trainNumber, b.trainNumber)

\* Array.prototype.sort, a stable sort: insertion from the left, an element
\* going behind everything it does not precede.
RECURSIVE InsertSorted(_, _, _)
InsertSorted(sorted, x, numOnly) ==
  IF sorted = <<>> THEN <<x>>
  ELSE IF Compare(x, Head(sorted), numOnly) < 0 THEN <<x>> \o sorted
  ELSE <<Head(sorted)>> \o InsertSorted(Tail(sorted), x, numOnly)

RECURSIVE Sort(_, _)
Sort(list, numOnly) ==
  IF list = <<>> THEN <<>>
  ELSE InsertSorted(Sort(SubSeq(list, 1, Len(list) - 1), numOnly),
                    list[Len(list)], numOnly)

\* .slice(0, 10)
MaxResults == 10

\* A faulty variant of Slice: nothing is cut.
Slice_All(list) == list

Slice(list) == SubSeq(list, 1, IF Len(list) < MaxResults THEN Len(list) ELSE MaxResults)

\* The results of /trains/autocomplete for the text q.
AutocompleteResults(index, q) ==
  Slice(Sort(Matches(index, Normalized(q), NumOnly(q), <<>>), NumOnly(q)))

\* -------------------------------------------------------------------- state

VARIABLES
  trainIndex,        \* the published index: <key, data> in insertion order
  indexLastUpdated,  \* 0 for null, else the time of the last publish
  indexStatus,       \* "not_initialized", "building", "ready"
  builds,            \* the executions of buildTrainIndex, by order of start
  nStarted,          \* how many executions have started; also the clock
  scheduler,         \* "startup", "building" (awaiting its rebuild), "timer"
  searches,          \* /trains/search requests awaiting client.trip
  resp,              \* the response the last step sent, if it sent one
  history,           \* what each publish step published, oldest first
  retry,             \* one execution of fetchWithRetry, called on its own
  clock,             \* Date.now() of the proxy and of the app, in ticks
  cache,             \* the proxy's cache: entries in insertion order
  requests,          \* the proxy handler's invocations in flight
  searchCache,       \* the app's searchCache: entries in insertion order
  appSearches,       \* the app's executions of searchTrainByNumber in flight
  out,               \* what the last step of the proxy or the app gave back
  screen             \* the app's TripDetailScreen: its state and its lookup

\* The state of the index service, and the state of the proxy and the app.
edgeVars ==
  << retry, clock, cache, requests, searchCache, appSearches, out, screen >>

vars == << trainIndex, indexLastUpdated, indexStatus, builds, nStarted,
           scheduler, searches, resp, history, edgeVars >>

\* Date.now(): time advances with every start of a rebuild.
Now == nStarted

\* The queries the lookup requests carry: one that is found once ICE 513 is
\* indexed, one that never is, and the empty q.
Queries == { <<" ","i","c","e"," ","5","1","3">>, <<"9","9">>, <<>> }

\* /trains/search requests that may await client.trip at once.
MaxPendingSearches == 1

\* Proxy handler invocations that may be in flight at once.
MaxRequests == 2

\* No execution of fetchWithRetry.
IdleFetch ==
  [ impl |-> "none", retries |-> 0, delay |-> 0, i |-> 0, pc |-> "idle",
    calls |-> 0, waits |-> <<>>, log |-> <<>>,
    result |-> [kind |-> "none", status |-> 0, message |-> ""] ]

\* No invocation of the proxy handler.
IdleRequest == [ pc |-> "idle", action |-> "none", id |-> "none", f |-> IdleFetch ]

\* Executions of searchTrainByNumber that may be in flight at once.
MaxAppSearches == 1

\* No execution of searchTrainByNumber.
IdleAppSearch == [ pc |-> "idle", key |-> <<>>, arg |-> <<>>, log |-> <<>> ]

\* TripDetailScreen before it is mounted.
NoScreen ==
  [ pc |-> "unmounted", stops |-> <<>>, originIndex |-> {},
    destinationIndex |-> {}, locationLoading |-> FALSE ]

\* The proxy and the app after their modules are loaded: empty caches,
\* nothing in flight, the start screen shown.
EdgeInit ==
  /\ screen = NoScreen
  /\ retry = IdleFetch
  /\ clock = 0
  /\ cache = <<>>
  /\ requests = [r \in 1..MaxRequests |-> IdleRequest]
  /\ searchCache = <<>>
  /\ appSearches = [a \in 1..MaxAppSearches |-> IdleAppSearch]
  /\ out = <<>>

IdleBuild ==
  [ pc |-> "idle", origin |-> "none", timetable |-> 0, fetch |-> 0,
    newIndex |-> <<>>, log |-> <<>>, stationDeps |-> 0, stationArrs |-> 0,
    totalDepartures |-> 0, totalArrivals |-> 0, stationsProcessed |-> 0,
    errors |-> 0, startTime |-> 0 ]

Running == {b \in 1..MaxBuilds : builds[b].pc = "run"}

Init ==
  /\ trainIndex = <<>>
  /\ indexLastUpdated = 0
  /\ indexStatus = "not_initialized"
  /\ builds = [b \in 1..MaxBuilds |-> IdleBuild]
  /\ nStarted = 0
  /\ scheduler = "startup"
  /\ searches = <<>>
  /\ resp = <<>>
  /\ history = <<>>
  /\ EdgeInit

\* A faulty variant of Listening: the handlers hold a request back while a
\* rebuild has the status at building.
Listening_NotBuilding == scheduler # "startup" /\ indexStatus # "building"

\* The server answers requests once app.listen's callback has run, and that
\* callback runs into buildTrainIndex before it first awaits.
Listening == scheduler # "startup"

\* ------------------------------------------------------------ index builder

\* A faulty variant of NewIndexAtStart: the rebuild fills a copy of the live
\* index.
NewIndexAtStart_Live == trainIndex

\* const newIndex = new Map()
NewIndexAtStart == <<>>

\* A faulty variant of StatusAtStart: the status is left at ready.
StatusAtStart_Ready == "ready"

\* indexStatus = 'building'
StatusAtStart == "building"

\* One line of a rebuild's log: the call made and how it settled.
Call(n, r) ==
  [ station |-> StationOf(n), window |-> WindowOf(n),
    departure |-> IsDeparture(n), response |-> r ]

\* buildTrainIndex from its call to its first await: the status is set and
\* the first departures call is issued.  The upstream answers the rebuild's
\* requests from one of its timetables.
BuildStart(origin) ==
  /\ nStarted < MaxBuilds
  /\ nStarted' = nStarted + 1
  /\ indexStatus' = StatusAtStart
  /\ \E t \in Timetables :
       builds' = [builds EXCEPT ![nStarted + 1] =
                    [IdleBuild EXCEPT !.pc = "run", !.origin = origin,
                                      !.timetable = t, !.fetch = 1,
                                      !.newIndex = NewIndexAtStart,
                                      !.startTime = nStarted + 1]]

\* A faulty variant of NextFetch: a rejected fetch ends its station, the next
\* fetch being the first of the following station.
NextFetch_AbortStation(n, ok) ==
  IF ok THEN n + 1 ELSE StationOf(n) * 2 * Len(timeWindows) + 1

\* The fetch that follows fetch n, whether n resolved or was rejected: the
\* inner catch only logs.
NextFetch(n, ok) == n + 1

\* The source tag of an entry.
SourceTag(n) ==
  << IF IsDeparture(n) THEN "dep" ELSE "arr", timeWindows[WindowOf(n)].name >>

\* newIndex and the number of added records after the response r to fetch n.
Merged(newIndex, n, r) ==
  IF r.ok
    THEN AddAll(newIndex, r.list, majorStations[StationOf(n)], SourceTag(n))
    ELSE [index |-> newIndex, count |-> 0]

\* client.departures settles: its records are merged, or its failure is
\* logged; then the pacing delay, then the arrivals call is issued.
DeparturesDone(b) ==
  /\ builds[b].pc = "run"
  /\ builds[b].fetch <= FetchesPerBuild
  /\ IsDeparture(builds[b].fetch)
  /\ LET n == builds[b].fetch
         r == UpstreamResponse(builds[b].timetable, StationOf(n), WindowOf(n),
                               TRUE)
         m == Merged(builds[b].newIndex, n, r)
     IN builds' = [builds EXCEPT ![b] =
                     [@ EXCEPT !.newIndex = m.index,
                               !.stationDeps = @ + m.count,
                               !.log = Append(@, Call(n, r)),
                               !.fetch = NextFetch(n, r.ok)]]
  /\ resp' = <<>>
  /\ UNCHANGED << trainIndex, indexLastUpdated, indexStatus, nStarted,
                  scheduler, searches, history >>
  /\ UNCHANGED edgeVars

\* client.arrivals settles likewise; after the station's last window the
\* station's counts are added up.  Then the pacing delay, then the next
\* departures call, or the end of the loop.
ArrivalsDone(b) ==
  /\ builds[b].pc = "run"
  /\ builds[b].fetch <= FetchesPerBuild
  /\ ~IsDeparture(builds[b].fetch)
  /\ LET n == builds[b].fetch
         r == UpstreamResponse(builds[b].timetable, StationOf(n), WindowOf(n),
                               FALSE)
         m == Merged(builds[b].newIndex, n, r)
         last == WindowOf(n) = Len(timeWindows)
         cur == builds[b]
     IN builds' = [builds EXCEPT ![b] =
                     [@ EXCEPT
                        !.newIndex = m.index,
                        !.log = Append(@, Call(n, r)),
                        !.fetch = NextFetch(n, r.ok),
                        !.stationArrs = IF last THEN 0 ELSE @ + m.count,
                        !.stationDeps = IF last THEN 0 ELSE @,
                        !.totalDepartures =
                           IF last THEN @ + cur.stationDeps ELSE @,
                        !.totalArrivals =
                           IF last THEN @ + cur.stationArrs + m.count ELSE @,
                        !.stationsProcessed = IF last THEN @ + 1 ELSE @]]
  /\ resp' = <<>>
  /\ UNCHANGED << trainIndex, indexLastUpdated, indexStatus, nStarted,
                  scheduler, searches, history >>
  /\ UNCHANGED edgeVars

\* A faulty variant of LoopDone: the index is published after the first
\* fetch.
LoopDone_Early(b) == builds[b].fetch > 1

\* A faulty variant of LoopDone: the loop never ends.
LoopDone_Never(b) == FALSE

\* The loop over the stations has ended.
LoopDone(b) == builds[b].fetch > FetchesPerBuild

\* new Set([...newIndex.values()].map(t => t.trainNumber)).size
UniqueTrains(index) ==
  Cardinality({index[i].data.trainNumber : i \in 1..Len(index)})

\* The value buildTrainIndex returns.
Summary(b) ==
  [ entries |-> Len(builds[b].newIndex),
    uniqueTrains |-> UniqueTrains(builds[b].newIndex),
    departures |-> builds[b].totalDepartures,
    arrivals |-> builds[b].totalArrivals,
    stations |-> builds[b].stationsProcessed,
    errors |-> builds[b].errors,
    duration |-> Now - builds[b].startTime ]

\* What the caller of buildTrainIndex does when it ends: the startup and the
\* timer callback arm the next timer, the POST handler answers.
CallerContinues(b, answer) ==
  IF builds[b].origin = "manual"
    THEN /\ resp' = <<answer>>
         /\ UNCHANGED scheduler
    ELSE /\ scheduler' = "timer"
         /\ resp' = <<>>

\* The publish step and the return: the index is swapped, the time and the
\* status are set, and the caller continues.
Publish(b) ==
  /\ builds[b].pc = "run"
  /\ LoopDone(b)
  /\ trainIndex' = builds[b].newIndex
  /\ indexLastUpdated' = Now
  /\ indexStatus' = "ready"
  /\ builds' = [builds EXCEPT ![b] = [IdleBuild EXCEPT !.pc = "done"]]
  /\ history' = Append(history, [build |-> b, log |-> builds[b].log,
                                 index |-> builds[b].newIndex])
  /\ CallerContinues(b, [kind |-> "rebuild", code |-> 200,
                         summary |-> Summary(b), lastUpdated |-> Now])
  /\ UNCHANGED << nStarted, searches >>
  /\ UNCHANGED edgeVars

\* An exception escapes buildTrainIndex (one raised outside the loop's
\* try blocks): the execution ends there, and the caller's catch logs it
\* (startup, timer) or answers 500 (POST).
BuildThrow(b) ==
  /\ builds[b].pc = "run"
  /\ builds' = [builds EXCEPT ![b] = [IdleBuild EXCEPT !.pc = "threw"]]
  /\ CallerContinues(b, [kind |-> "rebuild", code |-> 500])
  /\ UNCHANGED << trainIndex, indexLastUpdated, indexStatus, nStarted,
                  searches, history >>
  /\ UNCHANGED edgeVars

\* -------------------------------------------------------- rebuild scheduler

\* app.listen's callback: the initial rebuild.
Startup ==
  /\ scheduler = "startup"
  /\ scheduler' = "building"
  /\ BuildStart("startup")
  /\ resp' = <<>>
  /\ UNCHANGED << trainIndex, indexLastUpdated, searches, history >>
  /\ UNCHANGED edgeVars

\* A faulty variant of TimerFires: the timer's callback starts no rebuild
\* while the status is building.
TimerFires_UnlessBuilding ==
  /\ scheduler = "timer"
  /\ indexStatus # "building"
  /\ scheduler' = "building"
  /\ BuildStart("timer")
  /\ resp' = <<>>
  /\ UNCHANGED << trainIndex, indexLastUpdated, searches, history >>
  /\ UNCHANGED edgeVars

\* A faulty variant of TimerFires: the callback arms the next timer before
\* it awaits its rebuild.
TimerFires_ArmsFirst ==
  /\ scheduler = "timer"
  /\ scheduler' = "timer"
  /\ BuildStart("timer")
  /\ resp' = <<>>
  /\ UNCHANGED << trainIndex, indexLastUpdated, searches, history >>
  /\ UNCHANGED edgeVars

\* The hourly timer fires: a rebuild, whatever the status.
TimerFires ==
  /\ scheduler = "timer"
  /\ scheduler' = "building"
  /\ BuildStart("timer")
  /\ resp' = <<>>
  /\ UNCHANGED << trainIndex, indexLastUpdated, searches, history >>
  /\ UNCHANGED edgeVars

\* A faulty variant of RebuildConflict: the handler has no test.
RebuildConflict_Never == FALSE

\* if (indexStatus === 'building')
RebuildConflict == indexStatus = "building"

\* POST /trains/rebuild-index while the status is building: 409.
PostRebuildRejected ==
  /\ Listening
  /\ RebuildConflict
  /\ resp' = << [kind |-> "rebuild", code |-> 409] >>
  /\ UNCHANGED << trainIndex, indexLastUpdated, indexStatus, builds, nStarted,
                  scheduler, searches, history >>
  /\ UNCHANGED edgeVars

\* POST /trains/rebuild-index otherwise: a rebuild, awaited.
PostRebuildAccepted ==
  /\ Listening
  /\ ~RebuildConflict
  /\ BuildStart("manual")
  /\ resp' = <<>>
  /\ UNCHANGED << trainIndex, indexLastUpdated, scheduler, searches, history >>
  /\ UNCHANGED edgeVars

\* ------------------------------------------------------------------ lookups

\* GET /health
Health ==
  /\ Listening
  /\ resp' = << [kind |-> "health", status |-> indexStatus,
                 entries |-> Len(trainIndex),
                 lastUpdated |-> indexLastUpdated] >>
  /\ UNCHANGED << trainIndex, indexLastUpdated, indexStatus, builds, nStarted,
                  scheduler, searches, history >>
  /\ UNCHANGED edgeVars

\* A faulty variant of IndexStatus: the handler sets the status it reports.
IndexStatus_Resets ==
  /\ Listening
  /\ indexStatus' = "ready"
  /\ resp' = << [kind |-> "index-status", status |-> "ready",
                 entries |-> Len(trainIndex),
                 lastUpdated |-> indexLastUpdated,
                 stations |-> Len(majorStations)] >>
  /\ UNCHANGED << trainIndex, indexLastUpdated, builds, nStarted, scheduler,
                  searches, history >>
  /\ UNCHANGED edgeVars

\* GET /trains/index-status
IndexStatus ==
  /\ Listening
  /\ resp' = << [kind |-> "index-status", status |-> indexStatus,
                 entries |-> Len(trainIndex),
                 lastUpdated |-> indexLastUpdated,
                 stations |-> Len(majorStations)] >>
  /\ UNCHANGED << trainIndex, indexLastUpdated, indexStatus, builds, nStarted,
                  scheduler, searches, history >>
  /\ UNCHANGED edgeVars

\* GET /trains/autocomplete: no await, one run.  query, queryNumOnly,
\* matches and results are the handler's constants of these names.
Autocomplete(q) ==
  /\ Listening
  /\ IF q = Null \/ q = <<>>
       THEN resp' = << [kind |-> "autocomplete", results |-> <<>>] >>
       ELSE \E query \in {Normalized(q)} :
              \E queryNumOnly \in {StripNonDigits(query)} :
                \E matches \in {Matches(trainIndex, query, queryNumOnly, <<>>)} :
                  \E results \in {Slice(Sort(matches, queryNumOnly))} :
                    resp' = << [kind |-> "autocomplete", query |-> q,
                                count |-> Len(results), results |-> results] >>
  /\ UNCHANGED << trainIndex, indexLastUpdated, indexStatus, builds, nStarted,
                  scheduler, searches, history >>
  /\ UNCHANGED edgeVars

\* The train object of a found response.
TrainOf(found) ==
  [ lineName |-> found.lineName, trainNumber |-> found.trainNumber,
    trainType |-> found.trainType, direction |-> found.direction,
    foundAtStation |-> found.stationName ]

\* GET /trains/search up to its first await: the lookups and the scan.  A
\* miss is answered at once, a hit issues client.trip.  query, queryNoSpace
\* and queryNumOnly are the handler's constants of these names.
Search(q) ==
  /\ Listening
  /\ Len(searches) < MaxPendingSearches
  /\ IF q = Null \/ q = <<>>
       THEN /\ resp' = << [kind |-> "search", code |-> 400] >>
            /\ UNCHANGED searches
     ELSE \E query \in {Normalized(q)} :
            \E queryNoSpace \in {StripSpace(query)},
               queryNumOnly \in {StripNonDigits(query)} :
              IF ~IndexHit(trainIndex, query, queryNoSpace, queryNumOnly)
                THEN /\ resp' = << [kind |-> "search", code |-> 200,
                                    found |-> FALSE, query |-> q,
                                    indexStatus |-> indexStatus,
                                    indexSize |-> Len(trainIndex)] >>
                     /\ UNCHANGED searches
                ELSE /\ searches' =
                          Append(searches,
                                 [query |-> q,
                                  found |-> IndexFound(trainIndex, query,
                                                       queryNoSpace,
                                                       queryNumOnly)])
                     /\ resp' = <<>>
  /\ UNCHANGED << trainIndex, indexLastUpdated, indexStatus, builds, nStarted,
                  scheduler, history >>
  /\ UNCHANGED edgeVars

\* A faulty variant of SearchTripDone: a failure of client.trip reaches the
\* handler's outer catch, which answers 500.
SearchTripDone_Fails(ok) ==
  /\ searches # <<>>
  /\ LET s == Head(searches)
     IN resp' =
          IF ok
            THEN << [kind |-> "search", code |-> 200, found |-> TRUE,
                     query |-> s.query, train |-> TrainOf(s.found),
                     trip |-> s.found.tripId, tripError |-> FALSE] >>
            ELSE << [kind |-> "search", code |-> 500] >>
  /\ searches' = Tail(searches)
  /\ UNCHANGED << trainIndex, indexLastUpdated, indexStatus, builds, nStarted,
                  scheduler, history >>
  /\ UNCHANGED edgeVars

\* client.trip settles: the found entry is answered with the trip, or with
\* the error beside it.
SearchTripDone(ok) ==
  /\ searches # <<>>
  /\ LET s == Head(searches)
     IN resp' =
          IF ok
            THEN << [kind |-> "search", code |-> 200, found |-> TRUE,
                     query |-> s.query, train |-> TrainOf(s.found),
                     trip |-> s.found.tripId, tripError |-> FALSE] >>
            ELSE << [kind |-> "search", code |-> 200, found |-> TRUE,
                     query |-> s.query,
                     train |-> [tripId |-> s.found.tripId] @@ TrainOf(s.found),
                     tripError |-> TRUE] >>
  /\ searches' = Tail(searches)
  /\ UNCHANGED << trainIndex, indexLastUpdated, indexStatus, builds, nStarted,
                  scheduler, history >>
  /\ UNCHANGED edgeVars

Next ==
  \/ Startup
  \/ TimerFires
  \/ PostRebuildRejected
  \/ PostRebuildAccepted
  \/ \E b \in 1..MaxBuilds : DeparturesDone(b)
  \/ \E b \in 1..MaxBuilds : ArrivalsDone(b)
  \/ \E b \in 1..MaxBuilds : Publish(b)
  \/ \E b \in 1..MaxBuilds : BuildThrow(b)
  \/ Health
  \/ IndexStatus
  \/ \E q \in Queries : Autocomplete(q)
  \/ \E q \in Queries : Search(q)
  \/ \E ok \in BOOLEAN : SearchTripDone(ok)

Spec == Init /\ [][Next]_vars

\* The rebuilds and their triggers alone: the lookups write none of the
\* variables these steps read.
NextRebuild ==
  \/ Startup
  \/ TimerFires
  \/ PostRebuildRejected
  \/ PostRebuildAccepted
  \/ \E b \in 1..MaxBuilds : DeparturesDone(b)
  \/ \E b \in 1..MaxBuilds : ArrivalsDone(b)
  \/ \E b \in 1..MaxBuilds : Publish(b)
  \/ \E b \in 1..MaxBuilds : BuildThrow(b)

SpecRebuild == Init /\ [][NextRebuild]_vars

\* ------------------------------------------- one rebuild, whatever the lines

\* The queries of the autocomplete requests.
CompleteQueries ==
  { <<"5","1">>, <<"5">>, <<"i","c","e">>, <<"5","1","3">>, <<>> }

\* The server when the startup's rebuild has issued its first call, the
\* upstream answering from the timetable of a label or of a list of the pool.
InitIndexer ==
  \E t \in LabelTimetables \cup PoolTimetables :
    /\ trainIndex = <<>>
    /\ indexLastUpdated = 0
    /\ indexStatus = StatusAtStart
    /\ builds = [b \in 1..MaxBuilds |->
                   IF b = 1
                     THEN [IdleBuild EXCEPT !.pc = "run", !.origin = "startup",
                                            !.timetable = t, !.fetch = 1,
                                            !.newIndex = NewIndexAtStart,
                                            !.startTime = 1]
                     ELSE IdleBuild]
    /\ nStarted = 1
    /\ scheduler = "building"
    /\ searches = <<>>
    /\ resp = <<>>
    /\ history = <<>>
    /\ EdgeInit

\* That rebuild and the autocomplete requests.
NextIndexer ==
  \/ \E b \in 1..MaxBuilds : DeparturesDone(b)
  \/ \E b \in 1..MaxBuilds : ArrivalsDone(b)
  \/ \E b \in 1..MaxBuilds : Publish(b)
  \/ \E q \in CompleteQueries : Autocomplete(q)

SpecIndexer == InitIndexer /\ [][NextIndexer]_vars

\* Every call a rebuild makes to the upstream settles: no rebuild waits for
\* its n-th fetch for ever.  (DeparturesDone(b) and ArrivalsDone(b) are
\* enabled exactly while rebuild b waits for a fetch, and each of their
\* steps moves it to its next fetch: this is their weak fairness.)
FetchesSettle ==
  \A b \in 1..MaxBuilds, n \in 1..FetchesPerBuild :
    []<>(builds[b].pc # "run" \/ builds[b].fetch # n)

\* The same with the scheduling Node gives: the callback of app.listen
\* runs, a timer that is armed fires, every call to the upstream settles,
\* and a rebuild whose loop has ended goes on to publish.  Nothing obliges
\* a rebuild to throw or a client to post.
SpecRebuildFair ==
  /\ SpecRebuild
  /\ WF_vars(Startup)
  /\ WF_vars(TimerFires)
  /\ \A b \in 1..MaxBuilds : WF_vars(Publish(b))
  /\ FetchesSettle

\* ------------------------------------------------- lookups on a live index

\* A label whose uppercased form and whose form without spaces are two
\* different keys.
R_E_5 == <<"R"," ","E"," ","5">>

\* The records a rebuild may have been given at its first station.
LookupRecords ==
  { Record(ICE513, TripA, <<"M">>, <<"w">>, {}),
    Record(ic513, TripC, <<>>, Null, {120}),
    Record(RE5, TripD, <<"H">>, <<"w">>, {}),
    Record(R_E_5, TripB, <<"M">>, <<"w">>, {}) }

\* The longest list of records of that response.
MaxRecords == 3

\* The lists of distinct records of at most MaxRecords records.
LookupLists ==
  UNION { {l \in [1..n -> LookupRecords] :
             \A i, j \in 1..n : i # j => l[i] # l[j]} : n \in 0..MaxRecords }

\* The texts of q of the lookup requests: the forms of "ic 513" and "r e 5"
\* that hit at the first, the second and the third lookup, texts only the
\* scan can find, a text without a digit, one that nothing matches, and the
\* empty q.
LookupQueries ==
  { <<" ","i","c","e"," ","5","1","3">>,
    <<"i","c"," ","5","1","3">>,
    <<"i","c"," "," ","5","1","3">>,
    <<"r"," ","e"," ","5">>,
    <<"x","5","1","3">>,
    <<"1","3">>,
    <<"e">>,
    <<"9","9">>,
    <<>> }

\* The server after its startup rebuild has published the index built from
\* one response of the first station: the status is ready, the timer armed.
InitLookup ==
  \E list \in LookupLists :
    /\ trainIndex = Merged(<<>>, 1, Resolved(list)).index
    /\ indexLastUpdated = 1
    /\ indexStatus = "ready"
    /\ builds = [b \in 1..MaxBuilds |->
                   IF b = 1 THEN [IdleBuild EXCEPT !.pc = "done"] ELSE IdleBuild]
    /\ nStarted = 1
    /\ scheduler = "timer"
    /\ searches = <<>>
    /\ resp = <<>>
    /\ history = << [build |-> 1, log |-> << Call(1, Resolved(list)) >>,
                     index |-> Merged(<<>>, 1, Resolved(list)).index] >>
    /\ EdgeInit

\* The lookup requests alone.
NextLookup ==
  \/ Health
  \/ IndexStatus
  \/ \E q \in LookupQueries : Autocomplete(q)
  \/ \E q \in LookupQueries : Search(q)
  \/ \E ok \in BOOLEAN : SearchTripDone(ok)

SpecLookup == InitLookup /\ [][NextLookup]_vars

\* ----------------------------------------------------------- fetchWithRetry

\* The most attempts a caller asks for.
MaxRetries == 4

\* The delays callers pass, in units of 500 ms: 500, 1000 and 2000 ms.
Delays == {1, 2, 4}

\* The two implementations: the proxy's (api/transport.ts) and the app's
\* (src/services/transportApi.ts).
Impls == {"proxy", "client"}

\* How one fetch ends: with a response of some status, or with a rejection
\* (a network error), written as status 0.
NetworkError == 0
Outcomes == {200, 429, 500, 503, 404, NetworkError}

\* response.ok
Ok(status) == status \in 200..299

\* response.status === 503 || response.status === 500 || response.status === 429
Transient(status) == status \in {503, 500, 429}

\* Math.pow(b, n)
RECURSIVE Pow(_, _)
Pow(b, n) == IF n = 0 THEN 1 ELSE b * Pow(b, n - 1)

\* A faulty variant of WaitTime: every wait is the delay.
WaitTime_Constant(impl, delay, i) == delay

\* The time slept after attempt i: delay * Math.pow(2, i) in the proxy,
\* delay * (i + 1) in the app.
WaitTime(impl, delay, i) ==
  IF impl = "proxy" THEN delay * Pow(2, i) ELSE delay * (i + 1)

\* What an execution ends with: a response it returns or an error it throws.
Response(status) == [kind |-> "response", status |-> status, message |-> ""]
Failure(status, message) == [kind |-> "error", status |-> status, message |-> message]

\* fetchWithRetry from its call to its first await: the first fetch is
\* issued, unless the loop has no iteration.
FetchStart(impl, retries, delay) ==
  IF 0 < retries
    THEN [IdleFetch EXCEPT !.impl = impl, !.retries = retries,
                           !.delay = delay, !.pc = "fetch", !.calls = 1]
    ELSE [IdleFetch EXCEPT !.impl = impl, !.retries = retries,
                           !.delay = delay, !.pc = "threw",
                           !.result = Failure(0, "Max retries reached")]

\* The ways an iteration ends: the timer is set, the response is returned,
\* the error is thrown.
Backoff(f, status) ==
  [f EXCEPT !.pc = "sleep", !.log = Append(@, status),
            !.waits = Append(@, WaitTime(f.impl, f.delay, f.i))]

Return(f, status) ==
  [f EXCEPT !.pc = "returned", !.log = Append(@, status),
            !.result = Response(status)]

Throw(f, status, message) ==
  [f EXCEPT !.pc = "threw", !.log = Append(@, status),
            !.result = Failure(status, message)]

\* A faulty variant of ProxySettles: the last attempt's failure is waited on
\* as well.
ProxySettles_OneMore(f, status) ==
  IF status # NetworkError /\ Ok(status) THEN Return(f, status)
  ELSE IF status # NetworkError /\ ~Transient(status) THEN Return(f, status)
  ELSE Backoff(f, status)

\* The proxy's iteration after its fetch has settled.
ProxySettles(f, status) ==
  IF status # NetworkError
    THEN IF Ok(status) THEN Return(f, status)
         ELSE IF Transient(status) /\ f.i < f.retries - 1
           THEN Backoff(f, status)
         ELSE Return(f, status)
    ELSE IF f.i = f.retries - 1
      THEN Throw(f, status, "fetch failed")
      ELSE Backoff(f, status)

\* The app's iteration after its fetch has settled: the API error is thrown
\* inside the try block, so that the catch block handles it like a
\* rejection of fetch.
ClientSettles(f, status) ==
  IF status # NetworkError /\ Ok(status) THEN Return(f, status)
  ELSE IF status # NetworkError /\ Transient(status) /\ f.i < f.retries - 1
    THEN Backoff(f, status)
  ELSE IF f.i = f.retries - 1
    THEN Throw(f, status,
               IF status = NetworkError THEN "fetch failed" ELSE "API error")
    ELSE Backoff(f, status)

Settles(f, status) ==
  IF f.impl = "proxy" THEN ProxySettles(f, status) ELSE ClientSettles(f, status)

\* The timer fires: i++, the loop's test, and the next fetch is issued.
Wakes(f) ==
  IF f.i + 1 < f.retries
    THEN [f EXCEPT !.i = @ + 1, !.pc = "fetch", !.calls = @ + 1]
    ELSE [f EXCEPT !.i = @ + 1, !.pc = "threw",
                   !.result = Failure(0, "Max retries reached")]

\* The proxy, the app's search and the execution called on its own share no
\* state but the clock they read, so each is looked at while the other two
\* are at rest.
RetryQuiet == retry = IdleFetch
ProxyQuiet == cache = <<>> /\ \A r \in 1..MaxRequests : requests[r] = IdleRequest
AppQuiet ==
  searchCache = <<>> /\ \A a \in 1..MaxAppSearches : appSearches[a] = IdleAppSearch

\* fetchWithRetry is called.
RetryCall(impl, retries, delay) ==
  /\ retry.pc = "idle"
  /\ ProxyQuiet /\ AppQuiet /\ clock = 0
  /\ retry' = FetchStart(impl, retries, delay)
  /\ UNCHANGED << trainIndex, indexLastUpdated, indexStatus, builds, nStarted,
                  scheduler, searches, resp, history >>
  /\ UNCHANGED << clock, cache, requests, searchCache, appSearches, out >>
  /\ UNCHANGED screen

\* Its fetch settles.
RetrySettles(status) ==
  /\ retry.pc = "fetch"
  /\ retry' = Settles(retry, status)
  /\ UNCHANGED << trainIndex, indexLastUpdated, indexStatus, builds, nStarted,
                  scheduler, searches, resp, history >>
  /\ UNCHANGED << clock, cache, requests, searchCache, appSearches, out >>
  /\ UNCHANGED screen

\* Its timer fires.
RetryWakes ==
  /\ retry.pc = "sleep"
  /\ retry' = Wakes(retry)
  /\ UNCHANGED << trainIndex, indexLastUpdated, indexStatus, builds, nStarted,
                  scheduler, searches, resp, history >>
  /\ UNCHANGED << clock, cache, requests, searchCache, appSearches, out >>
  /\ UNCHANGED screen

NextRetry ==
  \/ \E impl \in Impls, retries \in 0..MaxRetries, delay \in Delays :
       RetryCall(impl, retries, delay)
  \/ \E status \in Outcomes : RetrySettles(status)
  \/ RetryWakes

SpecRetry == Init /\ [][NextRetry]_vars

\* --------------------------------------------------------- the proxy's cache

\* MAX_CACHE_SIZE (100 in the code).
MAX_CACHE_SIZE == 3

\* CACHE_TTL_MS, in ticks of the clock (ten minutes in the code).
CACHE_TTL_MS == 1

\* The last tick of the clock.
MaxClock == 2

\* fetchWithRetry's defaults: retries (5 in the code, scaled), and delay =
\* 2000 (in units of 500 ms).
DefaultRetries == 2
DefaultDelay == 4

\* `${type}:${id}`
getCacheKey(type, id) == << type, ":", id >>

\* An entry of a cache, and the entries of a key.
CacheEntry(key, data, timestamp) ==
  [key |-> key, data |-> data, timestamp |-> timestamp]

Find(c, key) == {n \in 1..Len(c) : c[n].key = key}

\* Map.prototype.delete and Map.prototype.set: a key that is present keeps
\* its place.
Delete(c, key) == SelectSeq(c, LAMBDA e : e.key # key)

Set(c, entry) ==
  IF Find(c, entry.key) = {} THEN Append(c, entry)
  ELSE [n \in 1..Len(c) |-> IF c[n].key = entry.key THEN entry ELSE c[n]]

\* Date.now() - entry.timestamp > ttl
Expired(entry, now, ttl) == now - entry.timestamp > ttl

\* A faulty variant of Lookup: an entry is served whatever its age.
Lookup_Stale(c, key, now, ttl) ==
  IF Find(c, key) = {} THEN [cache |-> c, hit |-> FALSE, data |-> Null]
  ELSE [cache |-> c, hit |-> TRUE,
        data |-> c[CHOOSE n \in Find(c, key) : TRUE].data]

\* getFromCache and getCachedSearch: the cache after the call, whether an
\* entry is returned (none is null), and its data.
Lookup(c, key, now, ttl) ==
  IF Find(c, key) = {} THEN [cache |-> c, hit |-> FALSE, data |-> Null]
  ELSE LET entry == c[CHOOSE n \in Find(c, key) : TRUE]
       IN IF Expired(entry, now, ttl)
            THEN [cache |-> Delete(c, key), hit |-> FALSE, data |-> Null]
            ELSE [cache |-> c, hit |-> TRUE, data |-> entry.data]

getFromCache(c, key, now) == Lookup(c, key, now, CACHE_TTL_MS)

\* The entries that are not expired.
Sweep(c, now, ttl) == SelectSeq(c, LAMBDA e : ~Expired(e, now, ttl))

\* A faulty variant of setCache: nothing is removed.
setCache_Unbounded(c, key, data, now) == Set(c, CacheEntry(key, data, now))

\* setCache: on a full cache the expired entries are removed, then the first
\* key if the cache is still full; then the entry is set.
setCache(c, key, data, now) ==
  LET swept == IF Len(c) >= MAX_CACHE_SIZE THEN Sweep(c, now, CACHE_TTL_MS) ELSE c
      room == IF Len(c) >= MAX_CACHE_SIZE /\ Len(swept) >= MAX_CACHE_SIZE
                THEN Tail(swept) ELSE swept
  IN Set(room, CacheEntry(key, data, now))

\* ------------------------------------------------------ the proxy's handler

\* The requests: action and stationId or tripId.
Targets ==
  { <<"departures", "a">>, <<"departures", "b">>, <<"trip", "t">>,
    <<"trip", "u">>, <<"journeys", "x">>, <<"none", "x">> }

\* The statuses the upstream answers the proxy with.
UpstreamStatuses == {200, 404, 503, NetworkError}

\* The body of a successful upstream response for a request.
Result(action, id) == << action, id, "result" >>

\* What the handler sends: the status, the X-Cache header and the body.
Sends(status, xcache, body) ==
  [ kind |-> "proxy", status |-> status, xcache |-> xcache, body |-> body ]

\* The execution without the history of its fetches and waits, which the
\* handler's executions do not keep.
Untraced(f) == [f EXCEPT !.log = <<>>, !.waits = <<>>]

\* The handler is invoked: without a valid action 400; for departures and
\* trip the cache is asked, a hit is sent at once, and on a miss, as for
\* journeys, fetchWithRetry is called with its defaults.
Invoke(r, action, id) ==
  /\ RetryQuiet /\ AppQuiet
  /\ requests[r].pc = "idle"
  /\ IF action \notin {"departures", "trip", "journeys"}
       THEN /\ out' = << Sends(400, "none", Null) >>
            /\ UNCHANGED << cache, requests >>
     ELSE \E cached \in { IF action = "journeys"
                            THEN [cache |-> cache, hit |-> FALSE, data |-> Null]
                            ELSE getFromCache(cache, getCacheKey(action, id), clock) } :
       /\ cache' = cached.cache
       /\ IF cached.hit
            THEN /\ out' = << Sends(200, "HIT", cached.data) >>
                 /\ UNCHANGED requests
            ELSE /\ out' = <<>>
                 /\ requests' =
                      [requests EXCEPT ![r] =
                         [ pc |-> "fetch", action |-> action, id |-> id,
                           f |-> FetchStart("proxy", DefaultRetries, DefaultDelay) ]]
  /\ UNCHANGED << trainIndex, indexLastUpdated, indexStatus, builds, nStarted,
                  scheduler, searches, resp, history >>
  /\ UNCHANGED << retry, clock, searchCache, appSearches >>
  /\ UNCHANGED screen

\* A fetch of the handler's fetchWithRetry settles.  When fetchWithRetry
\* ends with it, the handler goes on: a response that is not OK is relayed
\* with its status, an error is answered 500 by the catch block, and the
\* body of an OK response is awaited.
UpstreamSettles(r, status) ==
  /\ requests[r].pc = "fetch"
  /\ requests[r].f.pc = "fetch"
  /\ \E f \in { Untraced(Settles(requests[r].f, status)) } :
       IF f.pc = "sleep"
         THEN /\ requests' = [requests EXCEPT ![r].f = f]
              /\ out' = <<>>
       ELSE IF f.pc = "threw"
         THEN /\ requests' = [requests EXCEPT ![r] = IdleRequest]
              /\ out' = << Sends(500, "none", Null) >>
       ELSE IF ~Ok(f.result.status)
         THEN /\ requests' = [requests EXCEPT ![r] = IdleRequest]
              /\ out' = << Sends(f.result.status, "none", Null) >>
       ELSE /\ requests' = [requests EXCEPT ![r].f = f, ![r].pc = "json"]
            /\ out' = <<>>
  /\ UNCHANGED << trainIndex, indexLastUpdated, indexStatus, builds, nStarted,
                  scheduler, searches, resp, history >>
  /\ UNCHANGED << retry, clock, cache, searchCache, appSearches >>
  /\ UNCHANGED screen

\* The timer of the handler's fetchWithRetry fires.
UpstreamWakes(r) ==
  /\ requests[r].pc = "fetch"
  /\ requests[r].f.pc = "sleep"
  /\ requests' = [requests EXCEPT ![r].f = Wakes(requests[r].f)]
  /\ out' = <<>>
  /\ UNCHANGED << trainIndex, indexLastUpdated, indexStatus, builds, nStarted,
                  scheduler, searches, resp, history >>
  /\ UNCHANGED << retry, clock, cache, searchCache, appSearches >>
  /\ UNCHANGED screen

\* A faulty variant of BodyParsed: the catch block stores its answer.
BodyParsed_StoresFailure(r, parsed) ==
  /\ requests[r].pc = "json"
  /\ LET action == requests[r].action
         id == requests[r].id
     IN IF action = "journeys"
          THEN /\ out' = << Sends(IF parsed THEN 200 ELSE 500, "none",
                                  IF parsed THEN Result(action, id) ELSE Null) >>
               /\ UNCHANGED cache
        ELSE /\ cache' = setCache(cache, getCacheKey(action, id),
                                  IF parsed THEN Result(action, id) ELSE Null,
                                  clock)
             /\ out' = << Sends(IF parsed THEN 200 ELSE 500,
                                IF parsed THEN "MISS" ELSE "none",
                                IF parsed THEN Result(action, id) ELSE Null) >>
  /\ requests' = [requests EXCEPT ![r] = IdleRequest]
  /\ UNCHANGED << trainIndex, indexLastUpdated, indexStatus, builds, nStarted,
                  scheduler, searches, resp, history >>
  /\ UNCHANGED << retry, clock, searchCache, appSearches >>
  /\ UNCHANGED screen

\* response.json() settles: the result is stored (departures, trip) and
\* sent, or the catch block answers 500.
BodyParsed(r, parsed) ==
  /\ requests[r].pc = "json"
  /\ LET action == requests[r].action
         id == requests[r].id
     IN IF ~parsed
          THEN /\ out' = << Sends(500, "none", Null) >>
               /\ UNCHANGED cache
        ELSE IF action = "journeys"
          THEN /\ out' = << Sends(200, "none", Result(action, id)) >>
               /\ UNCHANGED cache
        ELSE /\ cache' = setCache(cache, getCacheKey(action, id),
                                  Result(action, id), clock)
             /\ out' = << Sends(200, "MISS", Result(action, id)) >>
  /\ requests' = [requests EXCEPT ![r] = IdleRequest]
  /\ UNCHANGED << trainIndex, indexLastUpdated, indexStatus, builds, nStarted,
                  scheduler, searches, resp, history >>
  /\ UNCHANGED << retry, clock, searchCache, appSearches >>
  /\ UNCHANGED screen

\* Time passes.
Tick ==
  /\ RetryQuiet
  /\ clock < MaxClock
  /\ clock' = clock + 1
  /\ UNCHANGED << trainIndex, indexLastUpdated, indexStatus, builds, nStarted,
                  scheduler, searches, resp, history >>
  /\ UNCHANGED << retry, cache, requests, searchCache, appSearches, out >>
  /\ UNCHANGED screen

\* --------------------------------------------------------- the app's search

\* SEARCH_CACHE_TTL, in ticks of the clock (five minutes in the code).
SEARCH_CACHE_TTL == 1

\* The size above which setCachedSearch removes the expired entries (20 in
\* the code).
SweepAbove == 1

getCachedSearch(c, key, now) == Lookup(c, key, now, SEARCH_CACHE_TTL)

\* setCachedSearch: above that size the expired entries are removed; then
\* the entry is set.
setCachedSearch(c, key, data, now) ==
  Set(IF Len(c) > SweepAbove THEN Sweep(c, now, SEARCH_CACHE_TTL) ELSE c,
      CacheEntry(key, data, now))

\* The train numbers the user types.
AppTexts ==
  { <<" ","5","1","3">>, <<"i","c","e"," ","5","1","3">>, <<"5">>, <<" ">> }

\* The stages of the search, in their order.
Stages == << "stations", "journeys", "trainsearch" >>

\* What a stage finds: the journey of the train it was asked for, as that
\* stage converts it.
Journey(stage, trainNumber) == << stage >> \o trainNumber

\* What searchTrainByNumber returns.
Returns(results, cached) ==
  [ kind |-> "app", results |-> results, cached |-> cached ]

\* searchTrainByNumber up to its first await: the empty number returns [],
\* a cached result is returned, otherwise the first stage is started.
AppSearch(a, text) ==
  /\ RetryQuiet /\ ProxyQuiet
  /\ appSearches[a].pc = "idle"
  /\ \E cleanedNumber \in { toUpperCase(trim(text)) } :
       IF cleanedNumber = <<>>
         THEN /\ out' = << Returns(<<>>, FALSE) >>
              /\ UNCHANGED << searchCache, appSearches >>
       ELSE \E cached \in { getCachedSearch(searchCache, cleanedNumber, clock) } :
         /\ searchCache' = cached.cache
         /\ IF cached.hit
              THEN /\ out' = << Returns(cached.data, TRUE) >>
                   /\ UNCHANGED appSearches
              ELSE /\ out' = <<>>
                   /\ appSearches' =
                        [appSearches EXCEPT ![a] =
                           [pc |-> Stages[1], key |-> cleanedNumber,
                            arg |-> cleanedNumber, log |-> << Stages[1] >>]]
  /\ UNCHANGED << trainIndex, indexLastUpdated, indexStatus, builds, nStarted,
                  scheduler, searches, resp, history >>
  /\ UNCHANGED << retry, clock, cache, requests >>
  /\ UNCHANGED screen

\* A faulty variant: a stage without results is followed by the last stage.
NextStage_Skips(pc) == Stages[Len(Stages)]

\* The stage that follows a stage without results.
NextStage(pc) == Stages[1 + CHOOSE n \in 1..Len(Stages) : Stages[n] = pc]

\* A stage settles: results are stored and returned; without results the
\* next stage is started with the cleaned number, and after the last one []
\* is returned.
StageDone(a, found) ==
  /\ appSearches[a].pc # "idle"
  /\ \E results \in { IF found THEN << Journey(appSearches[a].pc,
                                                appSearches[a].arg) >>
                               ELSE <<>> } :
       IF Len(results) > 0
         THEN /\ searchCache' = setCachedSearch(searchCache, appSearches[a].key,
                                                results, clock)
              /\ out' = << Returns(results, FALSE) >>
              /\ appSearches' = [appSearches EXCEPT ![a] = IdleAppSearch]
       ELSE IF appSearches[a].pc = Stages[Len(Stages)]
         THEN /\ out' = << Returns(<<>>, FALSE) >>
              /\ appSearches' = [appSearches EXCEPT ![a] = IdleAppSearch]
              /\ UNCHANGED searchCache
       ELSE /\ out' = <<>>
            /\ appSearches' =
                 [appSearches EXCEPT
                    ![a].pc = NextStage(appSearches[a].pc),
                    ![a].arg = appSearches[a].key,
                    ![a].log = Append(appSearches[a].log,
                                      NextStage(appSearches[a].pc))]
            /\ UNCHANGED searchCache
  /\ UNCHANGED << trainIndex, indexLastUpdated, indexStatus, builds, nStarted,
                  scheduler, searches, resp, history >>
  /\ UNCHANGED << retry, clock, cache, requests >>
  /\ UNCHANGED screen

\* The proxy, the app's search and fetchWithRetry on its own.
NextEdge ==
  \/ \E impl \in Impls, retries \in 0..MaxRetries, delay \in Delays :
       RetryCall(impl, retries, delay)
  \/ \E status \in Outcomes : RetrySettles(status)
  \/ RetryWakes
  \/ \E r \in 1..MaxRequests, t \in Targets : Invoke(r, t[1], t[2])
  \/ \E r \in 1..MaxRequests, status \in UpstreamStatuses : UpstreamSettles(r, status)
  \/ \E r \in 1..MaxRequests : UpstreamWakes(r)
  \/ \E r \in 1..MaxRequests, parsed \in BOOLEAN : BodyParsed(r, parsed)
  \/ \E a \in 1..MaxAppSearches, text \in AppTexts : AppSearch(a, text)
  \/ \E a \in 1..MaxAppSearches, found \in BOOLEAN : StageDone(a, found)
  \/ Tick

SpecEdge == Init /\ [][NextEdge]_vars

\* The app's search on its own, while time passes.
NextApp ==
  \/ \E a \in 1..MaxAppSearches, text \in AppTexts : AppSearch(a, text)
  \/ \E a \in 1..MaxAppSearches, found \in BOOLEAN : StageDone(a, found)
  \/ Tick

SpecApp == Init /\ [][NextApp]_vars

\* -------------------------------------------------------- TripDetailScreen

\* A place: latitude and longitude, in hundredths of a degree.
Place(lat, lon) == << lat, lon >>

\* The stops of the journeys the screen is opened with: the location of each
\* stop, Null where the station has none.
Journeys ==
  { << Place(0, 0), Place(10, 0), Null, Place(30, 0) >>,
    << Null, Place(0, 3), Place(0, 3) >>,
    << Place(50, 50), Place(60, 50) >>,
    << Place(3, 4), Place(0, 0), Place(30, 0) >>,
    << Place(0, 0), Place(0, 3), Place(0, 6), Null >>,
    << Null, Null >> }

\* The positions getCurrentPositionAsync resolves with.
Positions ==
  { Place(0, 0), Place(3, 4), Place(10, 3), Place(30, -1), Place(2, 3) }

\* The square of 0.05 degrees, in hundredths of a degree.
NearSquared == 25

\* The square of Math.sqrt(Math.pow(.., 2) + Math.pow(.., 2)); the code
\* compares the roots, which are ordered as their squares are.
DistSquared(a, b) ==
  (a[1] - b[1]) * (a[1] - b[1]) + (a[2] - b[2]) * (a[2] - b[2])

\* journey.stops.forEach from stop i on (i counts from 0): closestIndex and
\* closestDist, which is Infinity until a stop with a location is seen.
RECURSIVE Closest(_, _, _, _)
Closest(stops, position, i, c) ==
  IF i >= Len(stops) THEN c
  ELSE IF stops[i + 1] = Null THEN Closest(stops, position, i + 1, c)
  ELSE IF c.infinite \/ DistSquared(stops[i + 1], position) < c.dist
    THEN Closest(stops, position, i + 1,
                 [ index |-> i, infinite |-> FALSE,
                   dist |-> DistSquared(stops[i + 1], position) ])
    ELSE Closest(stops, position, i + 1, c)

\* The screen is mounted with a journey: no stop is chosen, and the location
\* effect runs up to its request for the permission.
Mount(stops) ==
  /\ screen.pc = "unmounted"
  /\ screen' = [ pc |-> "permission", stops |-> stops, originIndex |-> {},
                 destinationIndex |-> {}, locationLoading |-> TRUE ]
  /\ UNCHANGED << trainIndex, indexLastUpdated, indexStatus, builds, nStarted,
                  scheduler, searches, resp, history >>
  /\ UNCHANGED << retry, clock, cache, requests, searchCache, appSearches, out >>

\* requestForegroundPermissionsAsync settles: when granted the position is
\* asked for; otherwise, and when it throws, the lookup is over.
PermissionSettles(status) ==
  /\ screen.pc = "permission"
  /\ screen' = IF status = "granted"
                 THEN [screen EXCEPT !.pc = "position"]
                 ELSE [screen EXCEPT !.pc = "done", !.locationLoading = FALSE]
  /\ UNCHANGED << trainIndex, indexLastUpdated, indexStatus, builds, nStarted,
                  scheduler, searches, resp, history >>
  /\ UNCHANGED << retry, clock, cache, requests, searchCache, appSearches, out >>

\* if (closestDist < 0.05) setOriginIndex(closestIndex)
FoundOrigin(s, c) ==
  IF ~c.infinite /\ c.dist < NearSquared THEN {c.index} ELSE s.originIndex

\* getCurrentPositionAsync settles: the closest stop with a location becomes
\* the origin when it is near; a failure is logged.  The lookup is over.
PositionSettles(ok, position) ==
  /\ screen.pc = "position"
  /\ screen' =
       [screen EXCEPT
          !.pc = "done",
          !.locationLoading = FALSE,
          !.originIndex =
             IF ok
               THEN FoundOrigin(screen,
                                Closest(screen.stops, position, 0,
                                        [ index |-> 0, infinite |-> TRUE,
                                          dist |-> 0 ]))
               ELSE @]
  /\ UNCHANGED << trainIndex, indexLastUpdated, indexStatus, builds, nStarted,
                  scheduler, searches, resp, history >>
  /\ UNCHANGED << retry, clock, cache, requests, searchCache, appSearches, out >>

\* handleStopSelect(i), a tap on stop i (from 0).
handleStopSelect(i) ==
  /\ screen.pc # "unmounted"
  /\ i < Len(screen.stops)
  /\ screen' =
       IF screen.originIndex = {}
         THEN [screen EXCEPT !.originIndex = {i}]
       ELSE IF screen.destinationIndex = {}
         THEN IF \A o \in screen.originIndex : i > o
                THEN [screen EXCEPT !.destinationIndex = {i}]
              ELSE IF \A o \in screen.originIndex : i < o
                THEN [screen EXCEPT !.destinationIndex = screen.originIndex,
                                    !.originIndex = {i}]
              ELSE [screen EXCEPT !.originIndex = {}, !.destinationIndex = {}]
       ELSE [screen EXCEPT !.originIndex = {i}, !.destinationIndex = {}]
  /\ UNCHANGED << trainIndex, indexLastUpdated, indexStatus, builds, nStarted,
                  scheduler, searches, resp, history >>
  /\ UNCHANGED << retry, clock, cache, requests, searchCache, appSearches, out >>

\* The stops of the longest journey.
MaxStops == 4

\* The screen on its own: it is opened, the lookup proceeds, stops are tapped.
NextScreen ==
  \/ \E stops \in Journeys : Mount(stops)
  \/ \E status \in {"granted", "denied", "threw"} : PermissionSettles(status)
  \/ \E ok \in BOOLEAN, position \in Positions : PositionSettles(ok, position)
  \/ \E i \in 0..(MaxStops - 1) : handleStopSelect(i)

SpecScreen == Init /\ [][NextScreen]_vars

\* ---------------------------------------------------- what the claims use

\* The index that is live according to the publish steps taken so far.
Live == IF history = <<>> THEN <<>> ELSE history[Len(history)].index

\* Every index that has been live: the empty one and the published ones.
Snapshots == {<<>>} \cup {history[i].index : i \in 1..Len(history)}

\* A response of the given kind was sent by the last step.
Sent(kind) == resp # <<>> /\ resp[1].kind = kind

\* The records of a log's resolved calls, in processing order, each with its
\* call.
RECURSIVE Flatten(_)
Flatten(log) ==
  IF log = <<>> THEN <<>>
  ELSE LET c == Head(log)
           list == IF c.response.ok THEN c.response.list ELSE <<>>
       IN [i \in 1..Len(list) |-> [info |-> list[i], call |-> c]]
          \o Flatten(Tail(log))

\* A record that can be indexed, and the keys it generates.
Usable(info) ==
  /\ info.name # Null /\ info.name # <<>>
  /\ info.tripId # Null /\ info.tripId # <<>>
  /\ \E i \in 1..Len(info.name) :
       /\ info.name[i] \in Digits
       /\ \E j \in i..Len(info.name) :
            /\ \A k \in i..j : info.name[k] \in Digits
            /\ (i = 1 \/ info.name[i - 1] \in Whitespace)
            /\ (j = Len(info.name) \/ info.name[j + 1] \in Whitespace)

GeneratedKeys(info) ==
  LET keys == KeysOf(info.name, extractTrainType(info.name),
                     extractTrainNumber(info.name))
  IN {keys[i] : i \in 1..Len(keys)}

\* The entry a candidate of Flatten yields.
EntryOf(c) ==
  TrainData(c.info, majorStations[c.call.station],
            << IF c.call.departure THEN "dep" ELSE "arr",
               timeWindows[c.call.window].name >>)

\* The first candidate, in processing order, that generates key k.
Writers(cands, k) ==
  {i \in 1..Len(cands) : Usable(cands[i].info) /\ k \in GeneratedKeys(cands[i].info)}

FirstWriter(cands, k) ==
  LET writers == Writers(cands, k)
  IN CHOOSE i \in writers : \A j \in writers : i <= j

\* ------------------------------------------------------------------- claims

\* C1: every lookup is evaluated against one complete published index.  The
\* live index is always the empty initial one or what one publish step
\* published after all its fetches; an autocomplete answer and a search miss
\* are what the live index gives, and a found entry, pending or answered, is
\* what one complete snapshot gives for the query.
C1_OneSnapshot ==
  /\ trainIndex = Live
  /\ \A i \in 1..Len(history) : Len(history[i].log) = FetchesPerBuild
  /\ (Sent("autocomplete") /\ "query" \in DOMAIN resp[1]) =>
       resp[1].results = AutocompleteResults(Live, resp[1].query)
  /\ (Sent("search") /\ resp[1].code = 200) =>
       IF resp[1].found
         THEN \E snap \in Snapshots :
                /\ SearchHit(snap, resp[1].query)
                /\ \A f \in DOMAIN TrainOf(SearchFound(snap, resp[1].query)) :
                     resp[1].train[f] = TrainOf(SearchFound(snap, resp[1].query))[f]
         ELSE /\ ~SearchHit(Live, resp[1].query)
              /\ resp[1].indexSize = Len(Live)
  /\ \A i \in 1..Len(searches) :
       \E snap \in Snapshots :
         /\ SearchHit(snap, searches[i].query)
         /\ searches[i].found = SearchFound(snap, searches[i].query)

\* C1 witness: an autocomplete answered with candidates while a rebuild holds
\* a partly built index that differs from the live one.
C1_Witness ==
  /\ Sent("autocomplete") /\ "count" \in DOMAIN resp[1] /\ resp[1].count > 0
  /\ \E b \in Running : builds[b].newIndex # <<>> /\ builds[b].newIndex # trainIndex

\* C2 as claimed: at most one execution of buildTrainIndex is in progress.
C2_AtMostOneRebuild == Cardinality(Running) <= 1

\* C3 as claimed: while any rebuild runs, a POST /trains/rebuild-index is
\* answered 409, that is, the handler's test for a conflict is true.
C3_RejectedWhileRunning == (Listening /\ Running # {}) => RebuildConflict

\* A step as C4 allows it: a POST answered 409 was handled in status building
\* and changed nothing of the index, the status, the time or the rebuilds; a
\* rebuild started for a POST started in another status, is the only one
\* started in that step and starts like any other; when it ends with its
\* publish step the POST is answered 200 with the summary of what it
\* published.
C4_ManualStep ==
  /\ (Sent("rebuild")' /\ resp'[1].code = 409) =>
       /\ indexStatus = "building"
       /\ UNCHANGED << trainIndex, indexStatus, indexLastUpdated, builds,
                       nStarted, history >>
  /\ \A b \in 1..MaxBuilds :
       (builds[b].pc = "idle" /\ builds'[b].pc = "run"
          /\ builds'[b].origin = "manual") =>
         /\ indexStatus \in {"not_initialized", "ready"}
         /\ indexStatus' = "building"
         /\ nStarted' = nStarted + 1 /\ b = nStarted'
         /\ \A c \in 1..MaxBuilds : c # b => builds'[c] = builds[c]
         /\ builds'[b].fetch = 1 /\ builds'[b].newIndex = <<>>
         /\ builds'[b].log = <<>>
  /\ \A b \in 1..MaxBuilds :
       (builds[b].pc = "run" /\ builds'[b].pc = "done"
          /\ builds[b].origin = "manual") =>
         /\ Sent("rebuild")' /\ resp'[1].code = 200
         /\ resp'[1].summary.entries = Len(trainIndex')
         /\ resp'[1].summary.stations = Len(majorStations)
         /\ resp'[1].summary.errors = builds[b].errors
         /\ resp'[1].summary.duration = Now - builds[b].startTime
         /\ resp'[1].lastUpdated = indexLastUpdated'
         /\ Len(builds[b].log) = FetchesPerBuild

\* C4: in status building a POST /trains/rebuild-index can only be answered
\* 409, and that changes nothing of the index, the status and the time; in
\* status not_initialized or ready it can only start one rebuild, which runs
\* as any other and is answered with the summary (entries, stations, errors,
\* duration) of what it published.
C4_Manual ==
  /\ [][C4_ManualStep]_vars
  /\ [](scheduler # "startup" =>
          IF indexStatus = "building"
            THEN ENABLED PostRebuildRejected /\ ~ENABLED PostRebuildAccepted
            ELSE /\ ~ENABLED PostRebuildRejected
                 /\ (nStarted < MaxBuilds => ENABLED PostRebuildAccepted))

\* C4 witness: a manual rebuild was answered with the summary of a non-empty
\* index.
C4_Witness ==
  Sent("rebuild") /\ resp[1].code = 200 /\ resp[1].summary.entries > 0

\* A publish step of rebuild b: it has attempted all its fetches, its index
\* becomes the live one, the status ready and the time the current time.
PublishStep(b) ==
  /\ builds[b].pc = "run" /\ builds'[b].pc = "done"
  /\ Len(builds[b].log) = FetchesPerBuild
  /\ trainIndex' = builds[b].newIndex
  /\ indexStatus' = "ready"
  /\ indexLastUpdated' = Now /\ indexLastUpdated' > 0
  /\ indexLastUpdated' >= indexLastUpdated

\* A step as C5 allows it: a rebuild starts exactly when the status is set to
\* building, and the status becomes ready, the index changes and the time
\* changes only in a publish step.
C5_LifecycleStep ==
  /\ nStarted' # nStarted => indexStatus' = "building"
  /\ (indexStatus' = "building" /\ indexStatus # "building") =>
       nStarted' = nStarted + 1
  /\ ( \/ indexStatus' = "ready" /\ indexStatus # "ready"
       \/ trainIndex' # trainIndex
       \/ indexLastUpdated' # indexLastUpdated ) =>
       \E b \in 1..MaxBuilds : PublishStep(b)
  /\ indexStatus' # "not_initialized"

\* C5: the lifecycle of the status.  It starts not_initialized with an empty
\* index and no time; every start of a rebuild sets it to building and
\* nothing else does; it becomes ready, and the index and the time change,
\* only in a publish step of a rebuild that has attempted all its fetches;
\* it never returns to not_initialized; ready implies that the time is set.
C5_Lifecycle ==
  /\ indexStatus = "not_initialized" /\ trainIndex = <<>> /\ indexLastUpdated = 0
  /\ [][C5_LifecycleStep]_vars
  /\ [](indexStatus = "ready" => indexLastUpdated # 0)
  /\ [](indexStatus = "not_initialized" => nStarted = 0)

\* C5 witness: the status is ready after the second publish.
C5_Witness ==
  indexStatus = "ready" /\ Len(history) = 2 /\ indexLastUpdated = Now

\* C6 as claimed: once a rebuild attempt has ended and none runs, the status
\* is not building.
C6_NotStuckBuilding ==
  (Listening /\ Running = {}) => indexStatus # "building"

\* C7: every published index (each is the last of history when published)
\* comes from a rebuild that attempted, for every station and window, the
\* departures call and then the arrivals call, in order, whatever failed;
\* every usable record of a resolved call is in it under all its keys; and a
\* rebuild publishes once.
C7_AllAttempted ==
  /\ \A i \in {Len(history)} \ {0} :
       LET log == history[i].log
       IN /\ Len(log) = 2 * NStations * NWindows
          /\ \A st \in 1..NStations, w \in 1..NWindows :
               \E n \in 1..Len(log) :
                 /\ n < Len(log)
                 /\ log[n].station = st /\ log[n].window = w /\ log[n].departure
                 /\ log[n + 1].station = st /\ log[n + 1].window = w
                 /\ ~log[n + 1].departure
          /\ \A n \in 1..Len(log), m \in 1..Len(log) :
               n < m => \/ log[n].station < log[m].station
                        \/ /\ log[n].station = log[m].station
                           /\ log[n].window <= log[m].window
          /\ LET cands == Flatten(log)
             IN \A c \in 1..Len(cands) :
                  Usable(cands[c].info) =>
                    \A k \in GeneratedKeys(cands[c].info) :
                      has(history[i].index, k)
  /\ \A i \in 1..Len(history), j \in 1..Len(history) :
       i # j => history[i].build # history[j].build
  /\ \A b \in 1..MaxBuilds :
       builds[b].pc = "done" <=> \E i \in 1..Len(history) : history[i].build = b

\* C7 witness: a published index whose rebuild had a rejected call before a
\* resolved call with a usable record.
C7_Witness ==
  \E i \in 1..Len(history) :
    \E n \in 1..Len(history[i].log), m \in 1..Len(history[i].log) :
      /\ n < m
      /\ ~history[i].log[n].response.ok
      /\ history[i].log[m].response.ok
      /\ \E r \in 1..Len(history[i].log[m].response.list) :
           Usable(history[i].log[m].response.list[r])

\* The log has ICE 513 as trip A at the first station and, in a later call
\* at the second station, as trip B, and nothing usable before trip A.
FrankfurtThenBerlin(log) ==
  \E n \in 1..Len(log), m \in 1..Len(log) :
    /\ n < m
    /\ log[n].station = 1 /\ log[m].station = 2
    /\ log[n].response.ok /\ log[m].response.ok
    /\ Len(log[n].response.list) > 0 /\ Len(log[m].response.list) > 0
    /\ log[n].response.list[1].name = ICE513
    /\ log[n].response.list[1].tripId = TripA
    /\ log[m].response.list[1].name = ICE513
    /\ log[m].response.list[1].tripId = TripB
    /\ \A e \in 1..(n - 1) : Flatten(<<log[e]>>) = <<>>

\* C8: first writer wins.  The keys of a published index (each is the last
\* of history when published) are the keys its rebuild's usable records
\* generate, and the entry under each key is the entry of the first record,
\* in processing order, that generates it.  When Frankfurt reports ICE 513
\* as trip A and Berlin reports it later as trip B, the searches for 513 and
\* ICE 513 find trip A at Frankfurt.
C8_FirstWriterWins ==
  \A i \in {Len(history)} \ {0} :
    LET cands == Flatten(history[i].log)
        index == history[i].index
    IN /\ {index[e].key : e \in 1..Len(index)} =
            UNION {GeneratedKeys(cands[c].info) :
                     c \in {d \in 1..Len(cands) : Usable(cands[d].info)}}
       /\ \A e \in 1..Len(index) :
            index[e].data = EntryOf(cands[FirstWriter(cands, index[e].key)])
       /\ FrankfurtThenBerlin(history[i].log) =>
            \A q \in { <<"5","1","3">>, ICE513 } :
              /\ SearchHit(index, q)
              /\ SearchFound(index, q).tripId = TripA
              /\ SearchFound(index, q).stationName = "Frankfurt Hbf"

\* C8 witness: such an index has been published.
C8_Witness ==
  \E i \in 1..Len(history) : FrankfurtThenBerlin(history[i].log)

\* C9: two rebuilds that received the same responses published the same
\* index, whatever was live when each started.
C9_Idempotent ==
  \A i \in 1..Len(history), j \in 1..Len(history) :
    history[i].log = history[j].log => history[i].index = history[j].index

\* C9 witness: two consecutive rebuilds with the same responses, the first of
\* them started over a different live index.
C9_Witness ==
  /\ Len(history) = 3
  /\ history[2].log = history[3].log
  /\ history[1].index # history[2].index
  /\ history[1].index # <<>>

\* C10: once the server listens, every lookup can be answered in every
\* state, whatever the status and whatever rebuilds are running; /health and
\* /trains/index-status report the live index and the status as they are.
C10_NeverWaits ==
  scheduler # "startup" =>
    /\ ENABLED Health
    /\ ENABLED IndexStatus
    /\ \A q \in Queries : ENABLED Autocomplete(q)
    /\ \A q \in Queries :
         Len(searches) < MaxPendingSearches => ENABLED Search(q)
    /\ \A ok \in BOOLEAN : searches # <<>> => ENABLED SearchTripDone(ok)
    /\ (Sent("health") \/ Sent("index-status")) =>
         /\ resp[1].status = indexStatus
         /\ resp[1].entries = Len(trainIndex)
         /\ resp[1].lastUpdated = indexLastUpdated
    /\ (Sent("search") /\ resp[1].code = 200 /\ ~resp[1].found) =>
         resp[1].indexStatus = indexStatus

\* C10 witness: /health answered from a non-empty live index while the
\* status is building.
C10_Witness ==
  Sent("health") /\ resp[1].status = "building" /\ resp[1].entries > 0

\* The three direct keys of a text q, in the order of the lookups.
DirectKeys(q) ==
  << trim(toUpperCase(q)),
     SelectSeq(trim(toUpperCase(q)), LAMBDA c : c \notin Whitespace),
     SelectSeq(trim(toUpperCase(q)), LAMBDA c : c \in Digits) >>

\* The direct keys of q that the live index has, by position.
Present(q) == {k \in 1..3 : has(trainIndex, DirectKeys(q)[k])}

\* C11: a search that awaits its trip lookup and whose text has a direct key
\* in the index found the entry under the first such key, in the order
\* normalized, without whitespace, digits only.
C11_FirstPresentKey ==
  \A n \in 1..Len(searches) :
    LET q == searches[n].query
        present == Present(q)
    IN present # {} =>
         \E k \in present :
           /\ \A j \in present : k <= j
           /\ searches[n].found = get(trainIndex, DirectKeys(q)[k])

\* A search found its entry at the second lookup, and the third lookup
\* would have given another entry.
C11_Witness ==
  \E n \in 1..Len(searches) :
    LET q == searches[n].query
    IN /\ Present(q) = {2, 3}
       /\ get(trainIndex, DirectKeys(q)[2]) # get(trainIndex, DirectKeys(q)[3])
       /\ searches[n].found = get(trainIndex, DirectKeys(q)[2])

\* The positions of the live index that the scan for q accepts.
Scanned(q) ==
  {i \in 1..Len(trainIndex) :
     \/ includes(trainIndex[i].key, DirectKeys(q)[3])
     \/ trainIndex[i].data.trainNumber = DirectKeys(q)[3]}

\* The last step answered a search with found: false.
SentMiss == Sent("search") /\ resp[1].code = 200 /\ ~resp[1].found

\* C12: a search whose three direct lookups miss found the first entry, in
\* insertion order, whose key contains the digit-only form of the text or
\* whose trainNumber equals it; and a search is answered not found only when
\* the three lookups miss and the scan accepts no entry.
C12_FuzzyFallback ==
  /\ \A n \in 1..Len(searches) :
       LET q == searches[n].query
           scanned == Scanned(q)
       IN Present(q) = {} =>
            \E i \in scanned :
              /\ \A j \in scanned : i <= j
              /\ searches[n].found = trainIndex[i].data
  /\ SentMiss => Present(resp[1].query) = {} /\ Scanned(resp[1].query) = {}

\* A search whose direct lookups all miss found the first of two entries
\* the scan accepts, and the two differ.
C12_Witness ==
  \E n \in 1..Len(searches) :
    LET q == searches[n].query
        scanned == Scanned(q)
    IN /\ Present(q) = {}
       /\ DirectKeys(q)[3] # <<>>
       /\ \E i, j \in scanned :
            /\ i < j
            /\ trainIndex[i].data # trainIndex[j].data
            /\ searches[n].found = trainIndex[i].data

\* The step is one of a lookup handler: it answers a lookup, or a search goes
\* on to await its trip.
LookupStep ==
  \/ /\ resp' # <<>>
     /\ resp'[1].kind \in {"search", "autocomplete", "health", "index-status"}
  \/ Len(searches') > Len(searches)

\* The step is the start of a rebuild: indexStatus = 'building'.
StartStep == nStarted' = nStarted + 1 /\ indexStatus' = "building"

\* A not-found answer carries the status and the size of the index as they
\* are.
MissEchoes ==
  SentMiss => /\ resp[1].indexStatus = indexStatus
              /\ resp[1].indexSize = Len(trainIndex)

\* The lookups write none of the index, the status and the time; the index
\* and the time are written by a publish step only.
C13_FrameStep ==
  /\ LookupStep => UNCHANGED << trainIndex, indexStatus, indexLastUpdated >>
  /\ (trainIndex' # trainIndex \/ indexLastUpdated' # indexLastUpdated) =>
       \E b \in 1..MaxBuilds : PublishStep(b)
  /\ indexStatus' # indexStatus =>
       StartStep \/ \E b \in 1..MaxBuilds : PublishStep(b)

\* C13 (as amended): a search that finds nothing is answered found: false
\* with the current indexStatus and the current size of the index; search,
\* autocomplete, /health and /trains/index-status leave the index, the status
\* and the time unchanged; the index and the time are written by the publish
\* step only, the status by the publish step and by the start of a rebuild.
C13_ReadOnlyLookups == [] MissEchoes /\ [][C13_FrameStep]_vars

\* A search was answered not found while a rebuild was running over a live
\* index that is not empty.
C13_Witness ==
  /\ SentMiss
  /\ resp[1].indexStatus = "building"
  /\ resp[1].indexSize > 0
  /\ trainIndex # <<>>

\* C13 (as stated): only the publish step ever writes the index, the status
\* and the time.
C13_OnlyPublishWrites ==
  [][ ( \/ trainIndex' # trainIndex
        \/ indexStatus' # indexStatus
        \/ indexLastUpdated' # indexLastUpdated ) =>
        \E b \in 1..MaxBuilds : PublishStep(b) ]_vars

\* The step ends a search that awaited client.trip.
TripSettles == searches # <<>> /\ searches' = Tail(searches)

\* The answer of such a step reports the entry the search had found: found:
\* true with the entry's lineName, trainNumber, trainType, direction and
\* station, and, when client.trip failed, the entry's tripId and a tripError
\* beside them.
C14_PartialHitStep ==
  TripSettles =>
    LET found == Head(searches).found
        r == resp'[1]
    IN /\ Len(resp') = 1
       /\ r.kind = "search" /\ r.code = 200 /\ r.found
       /\ r.query = Head(searches).query
       /\ r.train.lineName = found.lineName
       /\ r.train.trainNumber = found.trainNumber
       /\ r.train.trainType = found.trainType
       /\ r.train.direction = found.direction
       /\ r.train.foundAtStation = found.stationName
       /\ r.tripError => /\ r.train.tripId = found.tripId
                         /\ "trip" \notin DOMAIN r
       /\ ~r.tripError => r.trip = found.tripId

\* C14: when a search has hit an entry and client.trip then fails, the
\* answer is still found: true with the entry's lineName, trainNumber,
\* trainType, direction, station and tripId and with the error in tripError;
\* it is never a not-found answer or an error response.
C14_PartialHit == [][C14_PartialHitStep]_vars

\* A search that had found the IC entry was answered after client.trip
\* failed.
C14_Witness ==
  /\ Sent("search")
  /\ resp[1].code = 200 /\ resp[1].found /\ resp[1].tripError
  /\ resp[1].train.tripId = TripC
  /\ resp[1].train.lineName = ic513

\* The execution of fetchWithRetry has ended.
Ended(f) == f.pc \in {"returned", "threw"}

\* A response that reports a failure which is not transient.
Permanent(status) ==
  status # NetworkError /\ status \notin 200..299 /\ status \notin {429, 500, 503}

\* C15: in both implementations a response whose status is a failure other
\* than 429, 500 and 503 is never retried: when it is the first response,
\* exactly one upstream call was made, the execution has ended with the
\* failure and no backoff wait was made.
C15_PermanentNotRetried ==
  \A n \in 1..Len(retry.log) :
    Permanent(retry.log[n]) =>
      /\ n = Len(retry.log)
      /\ Ended(retry)
      /\ retry.result.status = retry.log[n]
      /\ retry.calls = n
      /\ Len(retry.waits) = n - 1

\* The growth factors a backoff may have, as fractions: 3/2, 2, 5/2, 3.
GrowthFactors == { <<3, 2>>, <<2, 1>>, <<5, 2>>, <<3, 1>> }

\* The waits w are delay * g^i for attempt i, with g the fraction given.
Geometric(w, delay, g) ==
  \A n \in 1..Len(w) : w[n] * Pow(g[2], n - 1) = delay * Pow(g[1], n - 1)

\* C16: in both implementations and for every value of retries, a transient
\* failure at attempt i (counted from 0) with retries remaining is followed by
\* a wait of exactly delay * g^i, for one growth factor g > 1, and then by the
\* next attempt.
C16_ExponentialBackoff ==
  /\ \A n \in 1..Len(retry.log) :
       (Transient(retry.log[n]) /\ n < retry.retries) =>
         /\ Len(retry.waits) >= n
         /\ retry.calls > n \/ retry.pc = "sleep"
  /\ \E g \in GrowthFactors : Geometric(retry.waits, retry.delay, g)

\* The first k fetches of the execution ended with transient failures.
TransientPrefix(f, k) ==
  /\ k <= Len(f.log)
  /\ \A n \in 1..k : f.log[n] # NetworkError /\ Transient(f.log[n])

\* C17: an execution whose first k fetches end with transient failures and
\* whose next fetch succeeds returns that response after exactly k + 1 calls
\* and k waits, each wait strictly longer than the one before; with retries
\* of three or more, two transient failures are followed by a third attempt,
\* whose success is returned after three calls and two waits.
C17_SuccessAfterTransients ==
  /\ \A k \in 0..MaxRetries :
       ( /\ Len(retry.log) = k + 1
         /\ TransientPrefix(retry, k)
         /\ retry.log[k + 1] # NetworkError /\ Ok(retry.log[k + 1]) ) =>
         /\ retry.pc = "returned"
         /\ retry.result = Response(retry.log[k + 1])
         /\ retry.calls = k + 1
         /\ Len(retry.waits) = k
         /\ \A n \in 1..(k - 1) : retry.waits[n] < retry.waits[n + 1]
  /\ (retry.retries >= 3 /\ Len(retry.log) = 2 /\ TransientPrefix(retry, 2)) =>
       /\ retry.pc \in {"sleep", "fetch"}
       /\ Len(retry.waits) = 2 /\ retry.waits[1] < retry.waits[2]

\* The app's fetchWithRetry has returned the third response after a 503 and
\* a 429.
C17_Witness ==
  /\ retry.impl = "client"
  /\ retry.log = << 503, 429, 200 >>
  /\ retry.pc = "returned"
  /\ retry.calls = 3
  /\ Len(retry.waits) = 2

\* The execution has ended and every fetch it made failed.
AllFailed(f) == Ended(f) /\ \A n \in 1..Len(f.log) : ~Ok(f.log[n])

\* An execution never makes more calls than retries, and one whose every
\* attempt failed ends with a failure: the proxy's returns the last response
\* when there is one, the app's throws.
C18_Bounded ==
  /\ retry.calls <= retry.retries
  /\ \A r \in 1..MaxRequests : requests[r].f.calls <= requests[r].f.retries
  /\ AllFailed(retry) =>
       LET last == IF retry.log = <<>> THEN NetworkError
                   ELSE retry.log[Len(retry.log)]
       IN /\ ~(retry.result.kind = "response" /\ Ok(retry.result.status))
          /\ retry.impl = "client" => retry.result.kind = "error"
          /\ (retry.impl = "proxy" /\ last # NetworkError) =>
               retry.result = Response(last)
          /\ (retry.impl = "proxy" /\ last = NetworkError) =>
               retry.result.kind = "error"

\* A request of the handler that ends where it awaited fetchWithRetry ends
\* with an error response and stores nothing: the status is the upstream's,
\* a transient one only after all the attempts, or 500 after an error.
C18_RelayStep ==
  \A r \in 1..MaxRequests :
    (requests[r].pc = "fetch" /\ requests'[r].pc = "idle") =>
      /\ Len(out') = 1 /\ out'[1].kind = "proxy"
      /\ out'[1].xcache = "none" /\ out'[1].body = Null
      /\ cache' = cache
      /\ out'[1].status \in (UpstreamStatuses \ {200, NetworkError}) \cup {500}
      /\ (Transient(out'[1].status) \/ out'[1].status = 500) =>
           requests[r].f.calls = requests[r].f.retries

\* C18: fetchWithRetry never makes more than retries upstream calls; when
\* every attempt fails the caller receives the failure (the last response in
\* the proxy, a thrown error in the app), never a success; and the proxy's
\* handler relays the upstream status as an error response.
C18_ExhaustionFails == [] C18_Bounded /\ [][C18_RelayStep]_vars

\* The handler has relayed a 503: the upstream failed at all five attempts.
C18_Witness ==
  /\ out # <<>>
  /\ out[1].kind = "proxy"
  /\ out[1].status = 503
  /\ \A r \in 1..MaxRequests : requests[r].pc = "idle"

\* The entries of key in the cache c that are no older than ttl.
Fresh(c, key, ttl) ==
  {n \in 1..Len(c) : c[n].key = key /\ clock - c[n].timestamp <= ttl}

\* The handler answers from the cache: the entry it sends is no older than
\* the TTL, and the step calls no upstream and leaves the cache as it is.
ProxyHitStep ==
  (out' # <<>> /\ out'[1].kind = "proxy" /\ out'[1].xcache = "HIT") =>
    /\ \E n \in Fresh(cache, getCacheKey(out'[1].body[1], out'[1].body[2]),
                      CACHE_TTL_MS) :
         cache[n].data = out'[1].body
    /\ out'[1].status = 200
    /\ UNCHANGED << cache, requests >>

\* The handler calls the upstream for departures or a trip: the cache had no
\* entry of the key within the TTL, an older one is deleted, and the first
\* fetch is issued.
ProxyMissStep ==
  \A r \in 1..MaxRequests :
    ( /\ requests[r].pc = "idle" /\ requests'[r].pc = "fetch"
      /\ requests'[r].action \in {"departures", "trip"} ) =>
      LET key == getCacheKey(requests'[r].action, requests'[r].id)
      IN /\ Fresh(cache, key, CACHE_TTL_MS) = {}
         /\ Find(cache', key) = {}
         /\ \A n \in 1..Len(cache') : \E m \in 1..Len(cache) : cache'[n] = cache[m]
         /\ requests'[r].f.calls = 1

\* The handler answers with a fetched result for departures or a trip: the
\* result is stored under the key with the time of the step.
ProxyStoreStep ==
  (out' # <<>> /\ out'[1].kind = "proxy" /\ out'[1].xcache = "MISS") =>
    \E n \in Find(cache', getCacheKey(out'[1].body[1], out'[1].body[2])) :
      /\ cache'[n].timestamp = clock
      /\ cache'[n].data = out'[1].body

\* searchTrainByNumber returns a cached result: the entry is no older than
\* the TTL and no stage is started; when it starts its first stage the cache
\* had no entry of the key within the TTL and an older one is deleted.
AppCacheStep ==
  /\ (out' # <<>> /\ out'[1].kind = "app" /\ out'[1].cached) =>
       /\ \E n \in 1..Len(searchCache) :
            /\ searchCache[n].data = out'[1].results
            /\ clock - searchCache[n].timestamp <= SEARCH_CACHE_TTL
       /\ UNCHANGED << searchCache, appSearches >>
  /\ \A a \in 1..MaxAppSearches :
       (appSearches[a].pc = "idle" /\ appSearches'[a].pc # "idle") =>
         /\ Fresh(searchCache, appSearches'[a].key, SEARCH_CACHE_TTL) = {}
         /\ Find(searchCache', appSearches'[a].key) = {}

\* C19: in every step of the handler and of the app's search (the steps that
\* leave the clock and the execution called on its own as they are), no
\* cache returns an entry whose age exceeds the TTL: getFromCache and
\* getCachedSearch delete it and report a miss.  A departures or trip
\* request within the TTL of its entry is answered from the cache without
\* an upstream call; the first request after the TTL issues a fresh upstream
\* call, whose result is stored with the new time.
C19_NoStaleEntry ==
  [][ UNCHANGED << clock, retry >> =>
        ProxyHitStep /\ ProxyMissStep /\ ProxyStoreStep /\ AppCacheStep ]_vars

\* The proxy has answered from the cache with an entry whose age is exactly
\* the TTL, while another entry had to be fetched again.
C19_Witness ==
  /\ out # <<>> /\ out[1].kind = "proxy" /\ out[1].xcache = "HIT"
  /\ \E n \in 1..Len(cache) :
       /\ cache[n].data = out[1].body
       /\ clock - cache[n].timestamp = CACHE_TTL_MS
  /\ \E r \in 1..MaxRequests : requests[r].pc = "fetch"

\* C20: whatever requests the handler has served, one after the other or
\* interleaved, its cache holds at most MAX_CACHE_SIZE entries.
C20_CacheBounded == Len(cache) <= MAX_CACHE_SIZE

\* The cache is full, the handler has just stored the entry that is last in
\* it, and another request is about to store its result.
C20_Witness ==
  /\ Len(cache) = MAX_CACHE_SIZE
  /\ out # <<>> /\ out[1].kind = "proxy" /\ out[1].xcache = "MISS"
  /\ cache[Len(cache)].data = out[1].body
  /\ \E r \in 1..MaxRequests :
       /\ requests[r].pc = "json"
       /\ Find(cache, getCacheKey(requests[r].action, requests[r].id)) = {}

\* ------------------------------------------------------- the staged search

\* One step of the searches of the app: a search starts with the first
\* stage; a stage is followed by the next one of Stages, and only in a step
\* that returns and stores nothing; a search that returns results returns
\* those of the stage that settled in the step, and is over.
C21_StageStep ==
  \A a \in 1..MaxAppSearches :
    LET s == appSearches[a]
        t == appSearches'[a]
    IN /\ t.log = SubSeq(Stages, 1, Len(t.log))
       /\ t.pc # "idle" => t.pc = t.log[Len(t.log)]
       /\ (s.pc = "idle" /\ t.pc # "idle") => t.pc = Stages[1]
       /\ (s.pc # "idle" /\ t.pc # "idle" /\ t # s) =>
            /\ \E n \in 1..(Len(Stages) - 1) :
                 s.pc = Stages[n] /\ t.pc = Stages[n + 1]
            /\ out' = <<>>
            /\ UNCHANGED searchCache
       /\ (s.pc # "idle" /\ t.pc = "idle") =>
            /\ out' # <<>> /\ out'[1].kind = "app" /\ ~out'[1].cached
            /\ out'[1].results \in { <<>>, << Journey(s.pc, s.arg) >> }
            /\ out'[1].results = <<>> => s.pc = Stages[Len(Stages)]
            /\ t = IdleAppSearch

\* C21: the stages of searchTrainByNumber run in the fixed order stations,
\* journeys, trainsearch; a stage starts only when the one before it has
\* settled without results; the search returns exactly the results of the
\* first stage that has some, and starts no stage after it.
C21_StagedOrder == [][C21_StageStep]_vars

\* A search has returned the results of its second stage, after a first
\* stage without results.
C21_Witness ==
  /\ out # <<>> /\ out[1].kind = "app" /\ ~out[1].cached
  /\ out[1].results # <<>>
  /\ out[1].results[1][1] = Stages[2]
  /\ \A a \in 1..MaxAppSearches : appSearches[a] = IdleAppSearch

\* The number with a train type and a space before it.
C22_Variants(number) ==
  { TypeCodes[n] \o <<" ">> \o number : n \in 1..Len(TypeCodes) }

\* C22: a search of a purely numeric number whose station stage and journey
\* stage have both settled without results runs the station stage again,
\* with a train type and a space prepended to the number.
C22_PrefixVariants ==
  \A a \in 1..MaxAppSearches :
    ( /\ appSearches[a].pc # "idle"
      /\ Len(appSearches[a].log) > 2
      /\ IsDigits(appSearches[a].key) ) =>
      /\ appSearches[a].pc = Stages[1]
      /\ appSearches[a].arg \in C22_Variants(appSearches[a].key)

\* --------------------------------------------------- scheduling, termination

\* The rebuilds of the startup and of the timer that are under way.
Scheduled(bs) ==
  { b \in 1..MaxBuilds :
      bs[b].pc = "run" /\ bs[b].origin \in {"startup", "timer"} }

\* One step of the scheduler: the startup starts the first rebuild; the end
\* of a scheduled rebuild, published or thrown, arms the timer, and nothing
\* else does; the timer's firing starts one rebuild of the timer; one
\* scheduled rebuild at most is under way, and none while the timer is armed.
C23_SchedulerStep ==
  /\ (scheduler = "startup" /\ scheduler' # "startup") =>
       /\ scheduler' = "building"
       /\ nStarted = 0 /\ nStarted' = 1
       /\ builds'[1].pc = "run" /\ builds'[1].origin = "startup"
  /\ (scheduler = "timer" /\ scheduler' # "timer") =>
       /\ scheduler' = "building"
       /\ nStarted' = nStarted + 1
       /\ builds'[nStarted'].pc = "run" /\ builds'[nStarted'].origin = "timer"
  /\ (scheduler = "building" /\ scheduler' # "building") =>
       /\ scheduler' = "timer"
       /\ \E b \in Scheduled(builds) : builds'[b].pc \in {"done", "threw"}
  /\ \A b \in Scheduled(builds) : builds'[b].pc # "run" => scheduler' = "timer"
  /\ Cardinality(Scheduled(builds')) = IF scheduler' = "building" THEN 1 ELSE 0

\* C23: the startup runs one rebuild at once; when that attempt has ended,
\* published or thrown, the timer is armed; the timer's firing runs one
\* rebuild whatever the status and whatever the posted rebuilds do, and its
\* end arms the timer again.  So a scheduled attempt always ends with the
\* timer armed, and an armed timer always starts the next scheduled rebuild
\* (as far as MaxBuilds rebuilds go).
C23_RebuildsRecur ==
  /\ [][C23_SchedulerStep]_vars
  /\ (scheduler = "startup") ~> (scheduler = "building")
  /\ (scheduler = "building") ~> (scheduler = "timer")
  /\ (scheduler = "timer" /\ nStarted < MaxBuilds) ~>
       (scheduler = "building" \/ nStarted = MaxBuilds)

\* A rebuild of the timer is under way although an earlier attempt threw
\* and left the status at building.
C23_Witness ==
  /\ scheduler = "building"
  /\ \E b \in 1..MaxBuilds :
       builds[b].pc = "run" /\ builds[b].origin = "timer" /\ builds[b].fetch > 1
  /\ \E b \in 1..MaxBuilds : builds[b].pc = "threw"

\* The end of a posted rebuild answers the request: 200 with the summary
\* after the last fetch, or 500.
C24_AnswerStep ==
  \A b \in 1..MaxBuilds :
    (builds[b].pc = "run" /\ builds[b].origin = "manual"
       /\ builds'[b].pc # "run") =>
      /\ resp' # <<>> /\ resp'[1].kind = "rebuild"
      /\ \/ /\ resp'[1].code = 200
            /\ builds'[b].pc = "done"
            /\ Len(builds[b].log) = FetchesPerBuild
            /\ resp'[1].summary = Summary(b)
         \/ resp'[1].code = 500 /\ builds'[b].pc = "threw"

\* C24: a rebuild makes at most stations x windows x 2 fetches, and every
\* rebuild that has started ends, published or thrown, when every call to
\* the upstream settles; a posted rebuild answers its request when it ends,
\* with the summary or with 500 (a request met by the status building is
\* answered 409 in the step that receives it).
C24_RebuildTerminates ==
  /\ [](\A b \in 1..MaxBuilds : Len(builds[b].log) <= FetchesPerBuild)
  /\ [][C24_AnswerStep]_vars
  /\ \A b \in 1..MaxBuilds :
       (builds[b].pc = "run") ~> (builds[b].pc \in {"done", "threw"})

\* A posted rebuild has been answered with its summary after all its
\* fetches, some of which were rejected.
C24_Witness ==
  /\ resp # <<>> /\ resp[1].kind = "rebuild" /\ resp[1].code = 200
  /\ history # <<>>
  /\ LET last == history[Len(history)]
     IN /\ Len(last.log) = FetchesPerBuild
        /\ \E n \in 1..Len(last.log) : ~last.log[n].response.ok

\* ------------------------------------------------------------ autocomplete

\* The answer of /trains/autocomplete to a q that is not empty.
Completed ==
  resp # <<>> /\ resp[1].kind = "autocomplete" /\ "query" \in DOMAIN resp[1]

\* The entries of the index under keys of digits.
NumberKeys == { i \in 1..Len(trainIndex) : IsDigits(trainIndex[i].key) }

\* C25: an answer of /trains/autocomplete holds at most 10 candidates, and
\* no two of them have the same trainNumber.
C25_AtMostTenDistinct ==
  Completed =>
    /\ Len(resp[1].results) <= 10
    /\ resp[1].count = Len(resp[1].results)
    /\ \A i, j \in 1..Len(resp[1].results) :
         i # j => resp[1].results[i].trainNumber # resp[1].results[j].trainNumber

\* An answer of ten candidates from an index that holds more than ten
\* numbers, all of which the query matches.
C25_Witness ==
  /\ Completed
  /\ Len(resp[1].results) = 10
  /\ Cardinality(NumberKeys) > 10
  /\ \A i \in NumberKeys :
       MatchesQuery(trainIndex[i], Normalized(resp[1].query),
                    NumOnly(resp[1].query))

\* Number a is before number b in the order of digits, place by place.
DigitsBefore(a, b) ==
  \E i \in 1..Len(a) :
    /\ i <= Len(b)
    /\ Rank(a[i]) < Rank(b[i])
    /\ \A j \in 1..(i - 1) : a[j] = b[j]

\* Number a comes before number b in the answer to a query whose digits are
\* numOnly: the exact match, then the shorter, then the order of digits.
Before(a, b, numOnly) ==
  \/ a = numOnly
  \/ /\ b # numOnly
     /\ \/ Len(a) < Len(b)
        \/ Len(a) = Len(b) /\ DigitsBefore(a, b)

\* C26: in an answer of /trains/autocomplete the candidate whose
\* trainNumber is the digits of the query comes first, the others follow by
\* ascending length of trainNumber and, at equal length, in the order of the
\* digits; the cut to 10 is made after sorting, so that every matching
\* number left out comes after every number kept.
C26_SortedThenCut ==
  Completed =>
    LET numOnly == NumOnly(resp[1].query)
        results == resp[1].results
        kept    == { results[i].trainNumber : i \in 1..Len(results) }
        matched == { trainIndex[i].data.trainNumber :
                       i \in { k \in NumberKeys :
                                 MatchesQuery(trainIndex[k],
                                              Normalized(resp[1].query),
                                              numOnly) } }
    IN /\ kept \subseteq matched
       /\ Len(results) = IF Cardinality(matched) < 10
                            THEN Cardinality(matched) ELSE 10
       /\ \A i, j \in 1..Len(results) :
            i < j => Before(results[i].trainNumber, results[j].trainNumber,
                            numOnly)
       /\ \A a \in kept, b \in matched \ kept : Before(a, b, numOnly)

\* The index holds 513, 51 and 5134 in this order, and the answer to 51 is
\* 51, 513, 5134.
C26_Witness ==
  /\ Completed
  /\ resp[1].query = <<"5","1">>
  /\ Len(trainIndex) > 0
  /\ [i \in 1..Len(resp[1].results) |-> resp[1].results[i].trainNumber]
       = << <<"5","1">>, <<"5","1","3">>, <<"5","1","3","4">> >>
  /\ \E i, j, k \in NumberKeys :
       /\ i < j /\ j < k
       /\ trainIndex[i].key = <<"5","1","3">>
       /\ trainIndex[j].key = <<"5","1">>
       /\ trainIndex[k].key = <<"5","1","3","4">>

\* The answer to 513 begins with 513 although the index holds a shorter
\* number that matches.
C26_ExactFirst ==
  /\ Completed
  /\ resp[1].query = <<"5","1","3">>
  /\ Len(resp[1].results) > 1
  /\ resp[1].results[1].trainNumber = <<"5","1","3">>
  /\ Len(resp[1].results[2].trainNumber) < 3

\* ----------------------------------------------------- records and labels

\* The calls the rebuilds have made so far, those of the published ones
\* included, and the records they were given.
LoggedCalls ==
  UNION { { builds[b].log[n] : n \in 1..Len(builds[b].log) } : b \in 1..MaxBuilds }
    \cup UNION { { history[i].log[n] : n \in 1..Len(history[i].log) } :
                   i \in 1..Len(history) }

LoggedRecords ==
  UNION { { c.response.list[r] : r \in 1..Len(c.response.list) } :
            c \in LoggedCalls }

\* A value that is there: neither null nor the empty string.
Given(v) == v # Null /\ v # <<>>

\* A call settles with records none of which can be indexed: the rebuild's
\* index is what it was.
C27_SkipStep ==
  \A b \in 1..MaxBuilds :
    (builds[b].pc = "run" /\ Len(builds'[b].log) = Len(builds[b].log) + 1) =>
      LET list == builds'[b].log[Len(builds'[b].log)].response.list
      IN (\A r \in 1..Len(list) : ~Usable(list[r])) =>
           builds'[b].newIndex = builds[b].newIndex

\* Every entry of the index has a tripId, a lineName and a trainNumber of
\* digits.
WellFormed(index) ==
  \A i \in 1..Len(index) :
    /\ Given(index[i].data.tripId)
    /\ Given(index[i].data.lineName)
    /\ IsDigits(index[i].data.trainNumber)

\* C27: a record without tripId, without line name, or whose line name has
\* no token of digits only is skipped and changes nothing; every entry of
\* every index, published or being built, has a tripId, a lineName and a
\* trainNumber of digits that are not empty.
C27_OnlyUsableRecords ==
  /\ [][C27_SkipStep]_vars
  /\ [](/\ WellFormed(trainIndex)
        /\ \A i \in 1..Len(history) : WellFormed(history[i].index)
        /\ \A b \in 1..MaxBuilds : WellFormed(builds[b].newIndex))

\* The published index holds a line whose record without tripId was
\* skipped before its record with a tripId was filed.
C27_Witness ==
  /\ trainIndex # <<>>
  /\ history # <<>>
  /\ \E r \in LoggedRecords :
       /\ ~Given(r.tripId)
       /\ Usable([r EXCEPT !.tripId = TripA])
       /\ \A i \in 1..Len(trainIndex) : trainIndex[i].data.lineName = r.name

\* The type codes.
Codes == { TypeCodes[n] : n \in 1..Len(TypeCodes) }

\* C28: every key of the index equals its own uppercased form and is the
\* number of its entry, a type code and the number, a type code, a space
\* and the number, or the uppercased line label; also for the records whose
\* type is none of the codes.
C28_KeysUppercase ==
  \A i \in 1..Len(trainIndex) :
    LET key == trainIndex[i].key
        number == trainIndex[i].data.trainNumber
    IN /\ key = toUpperCase(key)
       /\ \/ key = number
          \/ \E code \in Codes : key = code \o number
          \/ \E code \in Codes : key = code \o <<" ">> \o number
          \/ key = toUpperCase(trainIndex[i].data.lineName)

\* Places i to j of the label hold a token of digits only.
DigitToken(name, i, j) ==
  /\ i <= j
  /\ \A k \in i..j : name[k] \in Digits
  /\ (i = 1 \/ name[i - 1] \in Whitespace)
  /\ (j = Len(name) \/ name[j + 1] \in Whitespace)

DigitTokens(name) ==
  { t \in (1..Len(name)) \X (1..Len(name)) : DigitToken(name, t[1], t[2]) }

\* C29: extractTrainNumber returns the first token of the label, tokens
\* being delimited by whitespace, that consists of digits only, and null
\* exactly when the label has no such token.
C29_FirstDigitToken ==
  \A r \in LoggedRecords :
    Given(r.name) =>
      LET tokens == DigitTokens(r.name)
      IN IF tokens = {}
           THEN extractTrainNumber(r.name) = Null
           ELSE \E t \in tokens :
                  /\ \A u \in tokens : t[1] <= u[1]
                  /\ extractTrainNumber(r.name) = SubSeq(r.name, t[1], t[2])

\* The line 5 13 has been filed under 5.
C29_Witness ==
  /\ \E r \in LoggedRecords : r.name = <<"5"," ","1","3">>
  /\ \E i \in 1..Len(trainIndex) :
       /\ trainIndex[i].key = <<"5">>
       /\ trainIndex[i].data.lineName = <<"5"," ","1","3">>
       /\ trainIndex[i].data.trainNumber = <<"5">>

\* Code is the beginning of the label.
Begins(label, code) ==
  Len(code) <= Len(label) /\ \A k \in 1..Len(code) : label[k] = code[k]

\* C30: extractTrainType returns one of the codes ICE, IC, EC, RE, RB, IRE,
\* TGV, RJ, NJ exactly when the uppercased label begins with one of them,
\* null otherwise, and the code it returns is the beginning of the
\* uppercased label.
C30_TypeIsPrefix ==
  \A r \in LoggedRecords :
    Given(r.name) =>
      LET type == extractTrainType(r.name)
          label == toUpperCase(r.name)
      IN /\ type \in Codes <=> \E code \in Codes : Begins(label, code)
         /\ type \notin Codes => type = Null
         /\ type \in Codes => Begins(label, type)

\* The index holds a line of type ICE and a line of no type.
C30_Witness ==
  /\ \E i \in 1..Len(trainIndex) :
       /\ trainIndex[i].data.trainType = <<"I","C","E">>
       /\ Begins(trainIndex[i].data.lineName, <<"I","C","E">>)
  /\ \E i \in 1..Len(trainIndex) :
       /\ trainIndex[i].data.trainType = Null
       /\ \A code \in Codes : ~Begins(toUpperCase(trainIndex[i].data.lineName), code)

\* Text p occurs in text s.
Occurs(s, p) ==
  \E from \in 0..(Len(s) - Len(p)) :
    \A k \in 1..Len(p) : s[from + k] = p[k]

\* C31: every candidate of an answer of /trains/autocomplete is the entry of
\* a key of digits only, and that key begins with the digits of the query,
\* or the entry's trainNumber does, or the entry's uppercased lineName holds
\* the uppercased, trimmed query.
C31_DigitKeysThatMatch ==
  Completed =>
    \A n \in 1..Len(resp[1].results) :
      \E i \in 1..Len(trainIndex) :
        /\ \A k \in 1..Len(trainIndex[i].key) : trainIndex[i].key[k] \in Digits
        /\ Len(trainIndex[i].key) > 0
        /\ resp[1].results[n] = Candidate(trainIndex[i].data)
        /\ \/ Begins(trainIndex[i].key, NumOnly(resp[1].query))
           \/ Begins(trainIndex[i].data.trainNumber, NumOnly(resp[1].query))
           \/ Occurs(toUpperCase(trainIndex[i].data.lineName),
                     Normalized(resp[1].query))

\* The query 513 is answered from an index that holds the number 51 and
\* keys that are no numbers: the answer holds the number 7, whose label
\* goes on with 513, and not the number 51.
C31_Witness ==
  /\ Completed
  /\ resp[1].query = <<"5","1","3">>
  /\ \E n \in 1..Len(resp[1].results) :
       resp[1].results[n].trainNumber = <<"7">>
  /\ \E i \in 1..Len(trainIndex) : trainIndex[i].key = <<"5","1">>
  /\ \E i \in 1..Len(trainIndex) : ~IsDigits(trainIndex[i].key)
  /\ \A n \in 1..Len(resp[1].results) :
       resp[1].results[n].trainNumber # <<"5","1">>

\* ------------------------------------------------------------- eviction

\* The cache without its n-th entry.
Without(c, n) == SubSeq(c, 1, n - 1) \o SubSeq(c, n + 1, Len(c))

\* The handler stores a fetched result: on a full cache every expired entry
\* goes; if the cache is still full one of the remaining entries goes, and
\* none of the remaining entries has a smaller timestamp than it; then the
\* result is set.
C32_StoreStep ==
  ( /\ requests' # requests
    /\ out' # <<>> /\ out'[1].kind = "proxy" /\ out'[1].xcache = "MISS" ) =>
    LET entry == CacheEntry(getCacheKey(out'[1].body[1], out'[1].body[2]),
                            out'[1].body, clock)
        remaining == SelectSeq(cache, LAMBDA e : clock - e.timestamp <= CACHE_TTL_MS)
    IN IF Len(cache) < MAX_CACHE_SIZE
         THEN cache' = Set(cache, entry)
       ELSE IF Len(remaining) < MAX_CACHE_SIZE
         THEN cache' = Set(remaining, entry)
       ELSE \E n \in 1..Len(remaining) :
              /\ \A m \in 1..Len(remaining) :
                   remaining[n].timestamp <= remaining[m].timestamp
              /\ cache' = Set(Without(remaining, n), entry)

\* C32: setCache on a full cache of the proxy removes every expired entry
\* first; only if the cache is still full it removes one more entry, the
\* one with the smallest timestamp of those that remain, also when two
\* requests of one key have both missed and both store their result.
C32_EvictsOldest == [][C32_StoreStep]_vars

\* C33: whatever searches have succeeded, for distinct numbers and with no
\* entry expired, searchCache holds no more entries than a fixed capacity:
\* the size above which setCachedSearch starts to remove entries, and the
\* entry it then sets.
C33_SearchCacheBounded == Len(searchCache) <= SweepAbove + 1

\* C34: a search whose text has no digit and none of whose direct keys is in
\* the index is answered found: false: no search that awaits its trip lookup
\* has such a text.
C34_NoDigitNotFound ==
  \A n \in 1..Len(searches) :
    DirectKeys(searches[n].query)[3] = <<>> => Present(searches[n].query) # {}

\* C35: the published index never regresses: the publish steps happen in the
\* order in which their rebuilds started, so no rebuild replaces the index
\* that a rebuild started after it has published.
C35_PublishedInStartOrder ==
  \A i, j \in 1..Len(history) :
    i < j => history[i].build < history[j].build

\* C36: the summary a rebuild returns counts at least one error when one of
\* its departures or arrivals calls was rejected; its errors field is 0
\* only when every call of the rebuild resolved.
C36_ErrorsCountFailures ==
  Sent("rebuild") /\ resp[1].code = 200 =>
    LET log == history[Len(history)].log
    IN (\E n \in 1..Len(log) : ~log[n].response.ok) =>
         resp[1].summary.errors >= 1

\* The keys derived from an entry: its trainNumber, its type followed by
\* the number, with and without a space, and its uppercased lineName.
Derived(data) ==
  { data.trainNumber,
    Str(data.trainType) \o data.trainNumber,
    Str(data.trainType) \o <<" ">> \o data.trainNumber,
    toUpperCase(data.lineName) }

\* C37: every key of the index is one of the keys derived from its entry,
\* and the entry of a key of digits only has that key as its trainNumber.
C37_KeysDerivedFromEntry ==
  \A i \in 1..Len(trainIndex) :
    /\ trainIndex[i].key \in Derived(trainIndex[i].data)
    /\ IsDigits(trainIndex[i].key) =>
         trainIndex[i].data.trainNumber = trainIndex[i].key

\* The published index files a label with two numbers under its first
\* number and under three more keys, none of them of digits only.
C37_Witness ==
  \E i \in 1..Len(trainIndex) :
    /\ trainIndex[i].key = <<"7">>
    /\ StripNonDigits(trainIndex[i].data.lineName) # <<"7">>
    /\ Cardinality({j \in 1..Len(trainIndex) :
                      /\ trainIndex[j].data = trainIndex[i].data
                      /\ ~IsDigits(trainIndex[j].key)}) = 3

\* A step that answers a request of the proxy with a status other than 200
\* leaves the proxy's cache as it was, and a step in which
\* searchTrainByNumber returns no result leaves searchCache as it was; after
\* any step no entry of searchCache holds an empty list.
C38_FailureStep ==
  /\ ( out' # <<>> /\ out'[1].kind = "proxy" /\ out'[1].status # 200 ) =>
       cache' = cache
  /\ ( out' # <<>> /\ out'[1].kind = "app" /\ out'[1].results = <<>> ) =>
       searchCache' = searchCache
  /\ \A n \in 1..Len(searchCache') : searchCache'[n].data # <<>>

\* C38: a failed or empty outcome is never cached: a response that is not OK
\* or an exception leaves the proxy's cache unchanged, the search cache never
\* stores an empty list, and so the next identical request finds no entry
\* left by the failure and goes upstream again.
C38_FailuresNotCached == [][C38_FailureStep]_vars

\* The proxy has answered a request with the upstream's 503 or with the 500
\* of its catch block while its cache holds entries of other requests.
C38_Witness ==
  /\ out # <<>> /\ out[1].kind = "proxy" /\ out[1].status \in {500, 503}
  /\ Len(cache) >= 2

\* C39: a timer is pending only while no rebuild of the startup or of the
\* timer is under way, and while the scheduler awaits its rebuild exactly
\* that one is under way: at most one timer is pending, two rebuilds of the
\* scheduler never overlap, and the timer is armed only once the scheduler's
\* previous attempt has ended.
C39_OneScheduledAtATime ==
  /\ scheduler = "startup" => nStarted = 0
  /\ scheduler = "timer" => Scheduled(builds) = {}
  /\ scheduler = "building" =>
       \E b \in 1..MaxBuilds :
         /\ Scheduled(builds) = {b}
         /\ \A c \in 1..MaxBuilds :
              builds[c].origin \in {"startup", "timer"} => c <= b

\* After the startup's rebuild has ended, a rebuild of the timer is under way
\* next to a posted rebuild, and the scheduler awaits it with no timer
\* pending.
C39_Witness ==
  /\ scheduler = "building"
  /\ \E b, c \in Running :
       /\ builds[b].origin = "timer"
       /\ builds[c].origin = "manual"
  /\ builds[1].pc \in {"done", "threw"}

\* C40: whenever the screen has both an origin and a destination, the
\* origin's index is smaller than the destination's, whatever stops were
\* tapped and whenever the location lookup completed.
C40_OriginBeforeDestination ==
  \A o \in screen.originIndex, d \in screen.destinationIndex : o < d

====
